---- MODULE Spec2Model ----
(***************************************************************************)
(* Bulk label-transformation engine of the Labeling Studio                 *)
(* (src/components/LabelingStudio.tsx) and the part of the resource table  *)
(* that feeds it (src/unnamed/part_001).                                   *)
(*                                                                         *)
(* Text is modelled as a sequence of one-character strings, so that        *)
(* String.prototype.split and RegExp matching are computed character by    *)
(* character.  Label keys are atomic strings ("" is the empty key); label  *)
(* values and resource names are character sequences (<<>> is the empty    *)
(* string).  Label keys are ordinary own-property names (none of them is a *)
(* name defined on Object.prototype).                                      *)
(*                                                                         *)
(* Specifications:                                                         *)
(*   Spec           the studio over a selection, one mode per run          *)
(*   SpecGate       the validity gate of the STATIC panel                  *)
(*   SpecValidated  the writing modes with texts the validator rejects     *)
(*   SpecAdvisory   the advisory call interleaved with manual edits        *)
(*   SpecTable      grouping, collapsing and pagination of the table       *)
(*   SpecSelection  selection, collection reload and bulk apply            *)
(***************************************************************************)
EXTENDS Integers, Sequences, FiniteSets, TLC

VARIABLES resources, selectedIds, isLabelingStudioOpen, mode, staticLabels,
          delimiter, mappings, regexPattern, regexGroups, keysToRemove,
          payload,
          isAnalyzing, aiAdvice, pendingCalls,
          filteredResources, groupByLabel, collapsedGroups, currentPage,
          itemsPerPage,
          rejectsEmpty

vars == <<resources, selectedIds, isLabelingStudioOpen, mode, staticLabels,
          delimiter, mappings, regexPattern, regexGroups, keysToRemove,
          payload, isAnalyzing, aiAdvice, pendingCalls, filteredResources,
          groupByLabel, collapsedGroups, currentPage, itemsPerPage,
          rejectsEmpty>>

studioParams == <<mode, staticLabels, delimiter, mappings, regexPattern,
                  regexGroups, keysToRemove>>

(***************************************************************************)
(* Bounds of the model.                                                    *)
(***************************************************************************)
MaxRows == 2
MaxMappings == 2
MaxGroups == 2
MaxKeys == 2

(***************************************************************************)
(* Input domains.                                                          *)
(***************************************************************************)
Modes == {"STATIC", "PATTERN", "REGEX", "CLEANUP"}

Ids == {"r1", "r2"}

KeyTexts == {"", "env", "app"}

ValueTexts == {<<>>, <<"a">>, <<"b">>}

Lower == {"a", "b"}

Digit == {"7"}

Names == { <<"a", "-", "b", "-", "7">>, <<"a", "-">>, <<"-", "7">> }

Positions == {0, 1, 2}

GroupIndexes == {0, 1, 2, 3}

Delimiters == { <<"-">>, <<>>, <<"b", "-">> }

DefaultRegex == "^([a-z]+)-([a-z]+)-(\\d+)$"

RegexSources == { DefaultRegex, "^([a-z]*)-(\\d+)?$", "(" }

NoLabels == [k \in {} |-> <<>>]

LabelMaps == { NoLabels,
               [k \in {"env", "app"} |-> IF k = "env" THEN <<"b">> ELSE <<"a">>] }

Inventories ==
    { [id \in Ids |-> IF id = "r1"
                        THEN [id |-> id, name |-> n, labels |-> l]
                        ELSE [id |-> id,
                              name |-> <<"a", "-", "b", "-", "7">>,
                              labels |-> [k \in {"env"} |-> <<"a">>]]]
      : n \in Names, l \in LabelMaps }

Selections == { {"r1"}, {"r1", "r2"} }

NoPayload == [none |-> TRUE]

(***************************************************************************)
(* JavaScript values.                                                      *)
(***************************************************************************)
Undefined == <<"undefined">>

Truthy(s) == s # Undefined /\ s # <<>>

ArrayAt(arr, i) == IF i \in 0..(Len(arr) - 1) THEN arr[i + 1] ELSE Undefined

RECURSIVE SplitFrom(_, _, _, _)
SplitFrom(s, sep, i, cur) ==
    IF i > Len(s) THEN <<cur>>
    ELSE IF i + Len(sep) - 1 <= Len(s) /\ SubSeq(s, i, i + Len(sep) - 1) = sep
         THEN <<cur>> \o SplitFrom(s, sep, i + Len(sep), <<>>)
         ELSE SplitFrom(s, sep, i + 1, Append(cur, s[i]))

Split(s, sep) ==
    IF sep = <<>> THEN [i \in 1..Len(s) |-> <<s[i]>>]
    ELSE SplitFrom(s, sep, 1, <<>>)

(***************************************************************************)
(* Regular expressions.  A compiled expression is the list of its          *)
(* elements between ^ and $: a literal character, or a capture group       *)
(* holding one character class quantified by a plus or a star, optionally  *)
(* followed by ?.  In every expression of RegexSources the character that  *)
(* follows a group is outside the group's class, so the greedy match is    *)
(* the only match and no backtracking is needed.                           *)
(***************************************************************************)
Lit(c) == [kind |-> "lit", ch |-> c, cls |-> {}, min |-> 0, opt |-> FALSE]

Grp(c, m, o) == [kind |-> "grp", ch |-> "", cls |-> c, min |-> m, opt |-> o]

NullRegex == [valid |-> FALSE, elems |-> <<>>]

(* Variant: the catch clause falls back to the default expression.         *)
NewRegExp_fallback(src) ==
    CASE src = "^([a-z]*)-(\\d+)?$" ->
           [valid |-> TRUE,
            elems |-> <<Grp(Lower, 0, FALSE), Lit("-"), Grp(Digit, 1, TRUE)>>]
      [] OTHER ->
           [valid |-> TRUE,
            elems |-> <<Grp(Lower, 1, FALSE), Lit("-"), Grp(Lower, 1, FALSE),
                        Lit("-"), Grp(Digit, 1, FALSE)>>]

NewRegExp(src) ==
    CASE src = DefaultRegex ->
           [valid |-> TRUE,
            elems |-> <<Grp(Lower, 1, FALSE), Lit("-"), Grp(Lower, 1, FALSE),
                        Lit("-"), Grp(Digit, 1, FALSE)>>]
      [] src = "^([a-z]*)-(\\d+)?$" ->
           [valid |-> TRUE,
            elems |-> <<Grp(Lower, 0, FALSE), Lit("-"), Grp(Digit, 1, TRUE)>>]
      [] src = "(" -> NullRegex

RECURSIVE RunLength(_, _, _)
RunLength(s, i, cls) ==
    IF i <= Len(s) /\ s[i] \in cls THEN 1 + RunLength(s, i + 1, cls) ELSE 0

NoMatch == [matched |-> FALSE, groups |-> <<>>]

RECURSIVE MatchFrom(_, _, _, _, _)
MatchFrom(s, elems, e, i, groups) ==
    IF e > Len(elems)
    THEN IF i = Len(s) + 1 THEN [matched |-> TRUE, groups |-> groups] ELSE NoMatch
    ELSE IF elems[e].kind = "lit"
         THEN IF i <= Len(s) /\ s[i] = elems[e].ch
              THEN MatchFrom(s, elems, e + 1, i + 1, groups)
              ELSE NoMatch
         ELSE LET run == RunLength(s, i, elems[e].cls)
              IN IF run >= elems[e].min
                 THEN MatchFrom(s, elems, e + 1, i + run,
                                Append(groups, SubSeq(s, i, i + run - 1)))
                 ELSE IF elems[e].opt
                      THEN MatchFrom(s, elems, e + 1, i, Append(groups, Undefined))
                      ELSE NoMatch

StringMatch(s, regex) == MatchFrom(s, regex.elems, 1, 1, <<s>>)

(***************************************************************************)
(* Label maps.                                                             *)
(***************************************************************************)
SetLabel(labels, key, value) ==
    [k \in DOMAIN labels \cup {key} |-> IF k = key THEN value ELSE labels[k]]

DeleteLabel(labels, key) == [k \in DOMAIN labels \ {key} |-> labels[k]]

(***************************************************************************)
(* previewData: the per-resource strategy run and the change list.         *)
(***************************************************************************)
AddChange(key, value) == [type |-> "ADD", key |-> key, value |-> value]

UpdateChange(key, old, new) ==
    [type |-> "UPDATE", key |-> key, oldValue |-> old, newValue |-> new]

DeleteChange(key, old) == [type |-> "DELETE", key |-> key, oldValue |-> old]

(* Variant: the comparison reads the candidate map instead of r.labels.   *)
processChange_vsCandidate(r, acc, key, value) ==
    [newLabels |-> SetLabel(acc.newLabels, key, value),
     changes |-> IF key \notin DOMAIN acc.newLabels
                 THEN Append(acc.changes, AddChange(key, value))
                 ELSE IF acc.newLabels[key] # value
                      THEN Append(acc.changes,
                                  UpdateChange(key, acc.newLabels[key], value))
                      ELSE acc.changes]

(* Variant: a new record is put at the head of the list.                   *)
processChange_unshift(r, acc, key, value) ==
    [newLabels |-> SetLabel(acc.newLabels, key, value),
     changes |-> IF key \notin DOMAIN r.labels
                 THEN <<AddChange(key, value)>> \o acc.changes
                 ELSE IF r.labels[key] # value
                      THEN <<UpdateChange(key, r.labels[key], value)>> \o acc.changes
                      ELSE acc.changes]

processChange(r, acc, key, value) ==
    [newLabels |-> SetLabel(acc.newLabels, key, value),
     changes |-> IF key \notin DOMAIN r.labels
                 THEN Append(acc.changes, AddChange(key, value))
                 ELSE IF r.labels[key] # value
                      THEN Append(acc.changes, UpdateChange(key, r.labels[key], value))
                      ELSE acc.changes]

(* STATIC: the callback of staticLabels.forEach and the loop.              *)
(* Variant: the row test looks at the key only.                            *)
StaticRow_keyOnly(r, acc, row) ==
    IF row.key # ""
    THEN processChange(r, acc, row.key, row.value)
    ELSE acc

StaticRow(r, acc, row) ==
    IF row.key # "" /\ row.value # <<>>
    THEN processChange(r, acc, row.key, row.value)
    ELSE acc

RECURSIVE StaticBranch(_, _, _, _)
StaticBranch(r, acc, rows, i) ==
    IF i > Len(rows) THEN acc
    ELSE StaticBranch(r, StaticRow(r, acc, rows[i]), rows, i + 1)

(* PATTERN: the callback of mappings.forEach and the loop.                 *)
(* Variant: the position is read one-based.                                *)
PatternMapping_oneBased(r, acc, parts, m) ==
    IF m.key # "" /\ Truthy(ArrayAt(parts, m.position - 1))
    THEN processChange(r, acc, m.key, ArrayAt(parts, m.position - 1))
    ELSE acc

(* Variant: a position outside the tokens is clamped to the nearest token. *)
PatternMapping_clamped(r, acc, parts, m) ==
    LET pos == IF m.position < 0 THEN 0
               ELSE IF m.position >= Len(parts) THEN Len(parts) - 1
               ELSE m.position
    IN IF m.key # "" /\ Truthy(ArrayAt(parts, pos))
       THEN processChange(r, acc, m.key, ArrayAt(parts, pos))
       ELSE acc

PatternMapping(r, acc, parts, m) ==
    IF m.key # "" /\ Truthy(ArrayAt(parts, m.position))
    THEN processChange(r, acc, m.key, ArrayAt(parts, m.position))
    ELSE acc

RECURSIVE PatternBranch(_, _, _, _, _)
PatternBranch(r, acc, parts, maps, i) ==
    IF i > Len(maps) THEN acc
    ELSE PatternBranch(r, PatternMapping(r, acc, parts, maps[i]), parts, maps, i + 1)

(* REGEX: the callback of regexGroups.forEach, the loop and the match.     *)
(* Variant: the group test is "not undefined" instead of truthiness.       *)
RegexGroup_anyDefined(r, acc, match, g) ==
    IF g.key # "" /\ ArrayAt(match, g.index) # Undefined
    THEN processChange(r, acc, g.key, ArrayAt(match, g.index))
    ELSE acc

RegexGroup(r, acc, match, g) ==
    IF g.key # "" /\ Truthy(ArrayAt(match, g.index))
    THEN processChange(r, acc, g.key, ArrayAt(match, g.index))
    ELSE acc

RECURSIVE RegexGroupsLoop(_, _, _, _, _)
RegexGroupsLoop(r, acc, match, groups, i) ==
    IF i > Len(groups) THEN acc
    ELSE RegexGroupsLoop(r, RegexGroup(r, acc, match, groups[i]), match, groups, i + 1)

(* Variant: a failed match is replaced by the array holding the name.      *)
RegexBranch_nameOnNoMatch(r, acc, regex, groups) ==
    LET match == StringMatch(r.name, regex)
    IN RegexGroupsLoop(r, acc, IF match.matched THEN match.groups ELSE <<r.name>>,
                       groups, 1)

RegexBranch(r, acc, regex, groups) ==
    LET match == StringMatch(r.name, regex)
    IN IF match.matched THEN RegexGroupsLoop(r, acc, match.groups, groups, 1)
       ELSE acc

(* CLEANUP: the callback of keysToRemove.forEach and the loop.             *)
(* Variant: the presence test is missing.                                  *)
CleanupKey_noPresenceTest(acc, k) ==
    IF k # ""
    THEN [newLabels |-> DeleteLabel(acc.newLabels, k),
          changes |-> Append(acc.changes,
                             DeleteChange(k, IF k \in DOMAIN acc.newLabels
                                             THEN acc.newLabels[k] ELSE Undefined))]
    ELSE acc

(* Variant: the key is recorded but not deleted from the candidate map.    *)
CleanupKey_keepsLabel(acc, k) ==
    IF k # "" /\ k \in DOMAIN acc.newLabels
    THEN [newLabels |-> acc.newLabels,
          changes |-> Append(acc.changes, DeleteChange(k, acc.newLabels[k]))]
    ELSE acc

CleanupKey(acc, k) ==
    IF k # "" /\ k \in DOMAIN acc.newLabels
    THEN [newLabels |-> DeleteLabel(acc.newLabels, k),
          changes |-> Append(acc.changes, DeleteChange(k, acc.newLabels[k]))]
    ELSE acc

RECURSIVE CleanupBranch(_, _, _)
CleanupBranch(acc, keys, i) ==
    IF i > Len(keys) THEN acc
    ELSE CleanupBranch(CleanupKey(acc, keys[i]), keys, i + 1)

(* The body of selectedResources.forEach: newLabels and changes of one resource. *)
RunStrategy(r, m, rows, delim, maps, pattern, groups, keys) ==
    LET acc0 == [newLabels |-> r.labels, changes |-> <<>>]
        regex == IF m = "REGEX" THEN NewRegExp(pattern) ELSE NullRegex
    IN CASE m = "STATIC" -> StaticBranch(r, acc0, rows, 1)
         [] m = "PATTERN" -> PatternBranch(r, acc0, Split(r.name, delim), maps, 1)
         [] m = "REGEX" /\ regex.valid -> RegexBranch(r, acc0, regex, groups)
         [] m = "CLEANUP" -> CleanupBranch(acc0, keys, 1)
         [] OTHER -> acc0

ResourceResult(r) ==
    RunStrategy(r, mode, staticLabels, delimiter, mappings, regexPattern,
                regexGroups, keysToRemove)

PreviewEntry(r) ==
    LET res == ResourceResult(r)
    IN [original |-> r.labels, new |-> res.newLabels, changes |-> res.changes]

(* Variant: one resource per selected id, made up if the collection has    *)
(* none of that id.                                                        *)
selectedResourcesList_perSelectedId ==
    { IF id \in DOMAIN resources THEN resources[id]
      ELSE [id |-> id, name |-> <<>>, labels |-> NoLabels] : id \in selectedIds }

(* resources.filter(r => selectedIds.has(r.id))                            *)
selectedResourcesList == { resources[id] : id \in DOMAIN resources \cap selectedIds }

(* Variant: every selected resource gets an entry.                         *)
HasPreviewEntry_always(r) == Len(ResourceResult(r).changes) >= 0

HasPreviewEntry(r) == Len(ResourceResult(r).changes) > 0

previewData ==
    LET shown == { r.id : r \in { x \in selectedResourcesList : HasPreviewEntry(x) } }
    IN [id \in shown |-> PreviewEntry(resources[id])]

(* Variant: the payload carries only the keys of the change records.       *)
BuildPayload_delta(preview) ==
    [id \in DOMAIN preview |->
        LET changed == { preview[id].changes[i].key : i \in DOMAIN preview[id].changes }
        IN [k \in DOMAIN preview[id].new \cap changed |-> preview[id].new[k]]]

BuildPayload(preview) == [id \in DOMAIN preview |-> preview[id].new]

(***************************************************************************)
(* Validity gate.  validateKey and validateValue belong to the external    *)
(* validator (utils/validation); TRUE stands for "an error message is      *)
(* returned".  What the validator answers for an empty key and for an      *)
(* empty value is not fixed by the studio: rejectsEmpty holds the fields   *)
(* for which the validator in use reports the empty string as an error.    *)
(***************************************************************************)
ValidKeys == {"env", "app"}

validateKey(key) ==
    IF key = "" THEN "key" \in rejectsEmpty ELSE key \notin ValidKeys

validateValue(value) ==
    IF value = <<>> THEN "value" \in rejectsEmpty
    ELSE \E i \in 1..Len(value) : value[i] \notin Lower \cup Digit \cup {"-"}

(* Variant: every row with an empty key is ignored.                        *)
staticLabelErrors_keyedRowsOnly ==
    [i \in 1..Len(staticLabels) |->
        IF staticLabels[i].key = ""
        THEN [key |-> FALSE, value |-> FALSE]
        ELSE [key |-> validateKey(staticLabels[i].key),
              value |-> validateValue(staticLabels[i].value)]]

staticLabelErrors ==
    [i \in 1..Len(staticLabels) |->
        IF staticLabels[i].key = "" /\ staticLabels[i].value = <<>>
        THEN [key |-> FALSE, value |-> FALSE]
        ELSE [key |-> validateKey(staticLabels[i].key),
              value |-> validateValue(staticLabels[i].value)]]

(* Variant: a non-empty list of mappings or keys is enough.                 *)
isValid_nonEmptyList ==
    CASE mode = "STATIC" ->
           LET validRows == { i \in 1..Len(staticLabels) :
                                /\ staticLabels[i].key # ""
                                /\ ~validateKey(staticLabels[i].key)
                                /\ ~validateValue(staticLabels[i].value) }
               hasErrors == \E i \in 1..Len(staticLabels) :
                                staticLabelErrors[i].key \/ staticLabelErrors[i].value
           IN validRows # {} /\ ~hasErrors
      [] mode = "PATTERN" -> Len(mappings) > 0
      [] mode = "REGEX" -> Len(regexGroups) > 0
      [] mode = "CLEANUP" -> Len(keysToRemove) > 0

isValid ==
    CASE mode = "STATIC" ->
           LET validRows == { i \in 1..Len(staticLabels) :
                                /\ staticLabels[i].key # ""
                                /\ ~validateKey(staticLabels[i].key)
                                /\ ~validateValue(staticLabels[i].value) }
               hasErrors == \E i \in 1..Len(staticLabels) :
                                staticLabelErrors[i].key \/ staticLabelErrors[i].value
           IN validRows # {} /\ ~hasErrors
      [] mode = "PATTERN" -> \E i \in 1..Len(mappings) : mappings[i].key # ""
      [] mode = "REGEX" -> \E i \in 1..Len(regexGroups) : regexGroups[i].key # ""
      [] mode = "CLEANUP" -> \E i \in 1..Len(keysToRemove) : keysToRemove[i] # ""

ApplyDisabled == ~isValid \/ Cardinality(DOMAIN previewData) = 0

(***************************************************************************)
(* Array helpers used by the handlers.                                     *)
(***************************************************************************)
Range(seq) == { seq[i] : i \in DOMAIN seq }

RemoveAt(arr, idx) == [i \in 1..(Len(arr) - 1) |-> IF i < idx THEN arr[i] ELSE arr[i + 1]]

RECURSIVE InsertByPosition(_, _)
InsertByPosition(sorted, m) ==
    IF sorted = <<>> THEN <<m>>
    ELSE IF sorted[Len(sorted)].position <= m.position
         THEN Append(sorted, m)
         ELSE Append(InsertByPosition(SubSeq(sorted, 1, Len(sorted) - 1), m),
                     sorted[Len(sorted)])

RECURSIVE SortByPosition(_)
SortByPosition(arr) ==
    IF arr = <<>> THEN <<>>
    ELSE InsertByPosition(SortByPosition(SubSeq(arr, 1, Len(arr) - 1)), arr[Len(arr)])

(***************************************************************************)
(* Initial state: the table holds an inventory and a selection, the studio *)
(* holds its constructor defaults, and the mode selector stands on one of  *)
(* the four modes.                                                         *)
(***************************************************************************)
NoAdvice == "null"

(* useState initial values of the studio, the mode selector apart.         *)
StudioConstructed ==
    /\ isAnalyzing = FALSE
    /\ aiAdvice = NoAdvice
    /\ pendingCalls = 0
    /\ staticLabels = <<[key |-> "", value |-> <<>>]>>
    /\ delimiter = <<"-">>
    /\ mappings = <<[position |-> 0, key |-> ""]>>
    /\ regexPattern = DefaultRegex
    /\ regexGroups = <<[index |-> 1, key |-> "env"], [index |-> 2, key |-> "app"]>>
    /\ keysToRemove = <<"">>

(* useState initial values of the table view: no grouping, nothing         *)
(* collapsed, first page.                                                  *)
ViewConstructed ==
    /\ groupByLabel = ""
    /\ collapsedGroups = {}
    /\ currentPage = 1

Init ==
    /\ resources \in Inventories
    /\ selectedIds \in Selections
    /\ isLabelingStudioOpen = FALSE
    /\ mode \in Modes
    /\ StudioConstructed
    /\ payload = NoPayload
    /\ ViewConstructed
    /\ filteredResources = <<"r1", "r2">>
    /\ itemsPerPage = 2
    /\ rejectsEmpty = {"key"}

tableVars == <<resources, selectedIds, payload>>

aiVars == <<isAnalyzing, aiAdvice, pendingCalls>>

viewVars == <<filteredResources, groupByLabel, collapsedGroups, currentPage,
              itemsPerPage>>

outerVars == <<tableVars, viewVars, aiVars, rejectsEmpty>>

(* The bulk action bar opens the studio; it is offered for a non-empty     *)
(* selection (with an empty one the studio has nothing to preview).        *)
OpenStudio ==
    /\ ~isLabelingStudioOpen
    /\ selectedIds # {}
    /\ isLabelingStudioOpen' = TRUE
    /\ UNCHANGED <<outerVars, studioParams>>

CloseStudio ==
    /\ isLabelingStudioOpen
    /\ isLabelingStudioOpen' = FALSE
    /\ UNCHANGED <<outerVars, studioParams>>

(* ---- STATIC panel ---- *)
StaticPanel == isLabelingStudioOpen /\ mode = "STATIC"

StaticOnly == <<outerVars, isLabelingStudioOpen, mode, delimiter, mappings,
                regexPattern, regexGroups, keysToRemove>>

(* onChange of a row's key input, the typed text drawn from keys.          *)
StaticSetKeyFrom(keys) ==
    /\ StaticPanel
    /\ \E idx \in 1..Len(staticLabels), k \in keys :
          staticLabels' = [staticLabels EXCEPT ![idx].key = k]
    /\ UNCHANGED StaticOnly

StaticSetKey == StaticSetKeyFrom(KeyTexts)

(* onChange of a row's value input, the typed text drawn from values.      *)
StaticSetValueFrom(values) ==
    /\ StaticPanel
    /\ \E idx \in 1..Len(staticLabels), v \in values :
          staticLabels' = [staticLabels EXCEPT ![idx].value = v]
    /\ UNCHANGED StaticOnly

StaticSetValue == StaticSetValueFrom(ValueTexts)

StaticRemoveRow ==
    /\ StaticPanel
    /\ \E idx \in 1..Len(staticLabels) : staticLabels' = RemoveAt(staticLabels, idx)
    /\ UNCHANGED StaticOnly

StaticAddRow ==
    /\ StaticPanel
    /\ Len(staticLabels) < MaxRows
    /\ staticLabels' = Append(staticLabels, [key |-> "", value |-> <<>>])
    /\ UNCHANGED StaticOnly

addTemplateToStatic ==
    /\ StaticPanel
    /\ \E k \in KeyTexts \ {""}, v \in ValueTexts \ {<<>>} :
          LET exists == \E i \in 1..Len(staticLabels) : staticLabels[i].key = k
              n == Len(staticLabels)
              lastEmpty == n > 0 /\ staticLabels[n].key = "" /\ staticLabels[n].value = <<>>
          IN IF exists
             THEN staticLabels' = [i \in 1..n |->
                                      IF staticLabels[i].key = k
                                      THEN [staticLabels[i] EXCEPT !.value = v]
                                      ELSE staticLabels[i]]
             ELSE IF lastEmpty
                  THEN staticLabels' = [staticLabels EXCEPT ![n] = [key |-> k, value |-> v]]
                  ELSE /\ n < MaxRows
                       /\ staticLabels' = Append(staticLabels, [key |-> k, value |-> v])
    /\ UNCHANGED StaticOnly

(* ---- PATTERN panel ---- *)
PatternPanel == isLabelingStudioOpen /\ mode = "PATTERN"

PatternOnly == <<outerVars, isLabelingStudioOpen, mode, staticLabels,
                 regexPattern, regexGroups, keysToRemove>>

SetDelimiter ==
    /\ PatternPanel
    /\ \E d \in Delimiters : delimiter' = d
    /\ UNCHANGED <<PatternOnly, mappings>>

updateMappingPosition ==
    /\ PatternPanel
    /\ \E idx \in 1..Len(mappings), newPos \in Positions \cup {-1} :
          IF newPos < 0
          THEN mappings' = mappings
          ELSE mappings' = SortByPosition([mappings EXCEPT ![idx].position = newPos])
    /\ UNCHANGED <<PatternOnly, delimiter>>

(* onChange of a mapping's key input, the typed text drawn from keys.      *)
MappingSetKeyFrom(keys) ==
    /\ PatternPanel
    /\ \E idx \in 1..Len(mappings), k \in keys :
          mappings' = [mappings EXCEPT ![idx].key = k]
    /\ UNCHANGED <<PatternOnly, delimiter>>

MappingSetKey == MappingSetKeyFrom(KeyTexts)

MappingRemove ==
    /\ PatternPanel
    /\ \E idx \in 1..Len(mappings) : mappings' = RemoveAt(mappings, idx)
    /\ UNCHANGED <<PatternOnly, delimiter>>

MappingAdd ==
    /\ PatternPanel
    /\ Len(mappings) < MaxMappings
    /\ mappings' = Append(mappings, [position |-> Len(mappings), key |-> ""])
    /\ UNCHANGED <<PatternOnly, delimiter>>

(* ---- REGEX panel ---- *)
RegexPanel == isLabelingStudioOpen /\ mode = "REGEX"

RegexOnly == <<outerVars, isLabelingStudioOpen, mode, staticLabels, delimiter,
               mappings, keysToRemove>>

SetRegexPattern ==
    /\ RegexPanel
    /\ \E src \in RegexSources : regexPattern' = src
    /\ UNCHANGED <<RegexOnly, regexGroups>>

GroupSetIndex ==
    /\ RegexPanel
    /\ \E idx \in 1..Len(regexGroups), n \in GroupIndexes :
          regexGroups' = [regexGroups EXCEPT ![idx].index = n]
    /\ UNCHANGED <<RegexOnly, regexPattern>>

(* onChange of a group's key input, the typed text drawn from keys.        *)
GroupSetKeyFrom(keys) ==
    /\ RegexPanel
    /\ \E idx \in 1..Len(regexGroups), k \in keys :
          regexGroups' = [regexGroups EXCEPT ![idx].key = k]
    /\ UNCHANGED <<RegexOnly, regexPattern>>

GroupSetKey == GroupSetKeyFrom(KeyTexts)

GroupRemove ==
    /\ RegexPanel
    /\ \E idx \in 1..Len(regexGroups) : regexGroups' = RemoveAt(regexGroups, idx)
    /\ UNCHANGED <<RegexOnly, regexPattern>>

GroupAdd ==
    /\ RegexPanel
    /\ Len(regexGroups) < MaxGroups
    /\ regexGroups' = Append(regexGroups, [index |-> Len(regexGroups) + 1, key |-> ""])
    /\ UNCHANGED <<RegexOnly, regexPattern>>

(* ---- CLEANUP panel ---- *)
CleanupPanel == isLabelingStudioOpen /\ mode = "CLEANUP"

CleanupOnly == <<outerVars, isLabelingStudioOpen, mode, staticLabels, delimiter,
                 mappings, regexPattern, regexGroups>>

KeySet ==
    /\ CleanupPanel
    /\ \E idx \in 1..Len(keysToRemove), k \in KeyTexts :
          keysToRemove' = [keysToRemove EXCEPT ![idx] = k]
    /\ UNCHANGED CleanupOnly

KeyRemove ==
    /\ CleanupPanel
    /\ \E idx \in 1..Len(keysToRemove) : keysToRemove' = RemoveAt(keysToRemove, idx)
    /\ UNCHANGED CleanupOnly

KeyAdd ==
    /\ CleanupPanel
    /\ Len(keysToRemove) < MaxKeys
    /\ keysToRemove' = Append(keysToRemove, "")
    /\ UNCHANGED CleanupOnly

(* ---- Apply ---- *)
(* handleApply, with onApply = executeBulkStudioUpdates and onClose.       *)
handleApply ==
    /\ isLabelingStudioOpen
    /\ ~ApplyDisabled
    /\ payload' = BuildPayload(previewData)
    /\ selectedIds' = {}
    /\ isLabelingStudioOpen' = FALSE
    /\ UNCHANGED <<resources, studioParams, viewVars, aiVars, rejectsEmpty>>

(* The store replaces the labels of every resource of the payload.         *)
StoreFeedback ==
    /\ payload # NoPayload
    /\ resources' = [id \in DOMAIN resources |->
                        IF id \in DOMAIN payload
                        THEN [resources[id] EXCEPT !.labels = payload[id]]
                        ELSE resources[id]]
    /\ payload' = NoPayload
    /\ UNCHANGED <<selectedIds, isLabelingStudioOpen, studioParams, viewVars,
                   aiVars, rejectsEmpty>>

Next ==
    \/ OpenStudio
    \/ CloseStudio
    \/ StaticSetKey
    \/ StaticSetValue
    \/ StaticRemoveRow
    \/ StaticAddRow
    \/ addTemplateToStatic
    \/ SetDelimiter
    \/ updateMappingPosition
    \/ MappingSetKey
    \/ MappingRemove
    \/ MappingAdd
    \/ SetRegexPattern
    \/ GroupSetIndex
    \/ GroupSetKey
    \/ GroupRemove
    \/ GroupAdd
    \/ KeySet
    \/ KeyRemove
    \/ KeyAdd
    \/ handleApply
    \/ StoreFeedback

Spec == Init /\ [][Next]_vars

(***************************************************************************)
(* The validity gate of the STATIC panel on its own: the rows take texts   *)
(* the validator rejects as well, and the validator in use may or may not  *)
(* reject the empty key and the empty value.                               *)
(***************************************************************************)
GateKeyTexts == KeyTexts \cup {"Env"}

GateValueTexts == ValueTexts \cup {<<"A">>}

InitGate ==
    /\ resources \in { inv \in Inventories : inv["r1"].labels = NoLabels }
    /\ selectedIds = {"r1"}
    /\ isLabelingStudioOpen = FALSE
    /\ mode = "STATIC"
    /\ StudioConstructed
    /\ payload = NoPayload
    /\ ViewConstructed
    /\ filteredResources = <<"r1", "r2">>
    /\ itemsPerPage = 2
    /\ rejectsEmpty \in SUBSET {"key", "value"}

GateSetKey == StaticSetKeyFrom(GateKeyTexts)

GateSetValue == StaticSetValueFrom(GateValueTexts)

NextGate ==
    \/ OpenStudio
    \/ CloseStudio
    \/ GateSetKey
    \/ GateSetValue
    \/ StaticRemoveRow
    \/ StaticAddRow
    \/ addTemplateToStatic
    \/ handleApply
    \/ StoreFeedback

SpecGate == InitGate /\ [][NextGate]_vars

(***************************************************************************)
(* The three writing modes with key and value texts the validator rejects: *)
(* what the gate lets through to the payload.                              *)
(***************************************************************************)
InitValidated ==
    /\ resources \in { inv \in Inventories : inv["r1"].labels = NoLabels }
    /\ selectedIds = {"r1"}
    /\ isLabelingStudioOpen = FALSE
    /\ mode \in {"STATIC", "PATTERN", "REGEX"}
    /\ StudioConstructed
    /\ payload = NoPayload
    /\ ViewConstructed
    /\ filteredResources = <<"r1", "r2">>
    /\ itemsPerPage = 2
    /\ rejectsEmpty \in SUBSET {"key", "value"}

ValidatedMappingSetKey == MappingSetKeyFrom(GateKeyTexts)

ValidatedGroupSetKey == GroupSetKeyFrom(GateKeyTexts)

NextValidated ==
    \/ OpenStudio
    \/ CloseStudio
    \/ GateSetKey
    \/ GateSetValue
    \/ StaticAddRow
    \/ ValidatedMappingSetKey
    \/ SetDelimiter
    \/ ValidatedGroupSetKey
    \/ SetRegexPattern
    \/ handleApply
    \/ StoreFeedback

SpecValidated == InitValidated /\ [][NextValidated]_vars

(***************************************************************************)
(* The advisory call (handleAiAnalysis).  analyzeNamingPatterns is an      *)
(* asynchronous call: pendingCalls counts the calls that have not settled. *)
(* The studio stays mounted while it is closed, so a call may settle after *)
(* the dialog has been closed.  The handler itself does not test           *)
(* isAnalyzing, so calls may overlap.                                      *)
(***************************************************************************)
MaxCalls == 2

NoConfig == [none |-> TRUE]

(* A configuration the service may return; "", the empty text and the      *)
(* empty array stand for a field that is missing.                          *)
PatternConfigs ==
    { [delimiter |-> d, mappings |-> ms, regex |-> "", groups |-> <<>>] :
        d \in { <<>>, <<"b", "-">> },
        ms \in { <<>>,
                 <<[position |-> -1, key |-> "app"], [position |-> 0, key |-> "env"]>>,
                 <<[position |-> 2, key |-> "env"], [position |-> 1, key |-> "app"]>> } }

RegexConfigs ==
    { [delimiter |-> <<>>, mappings |-> <<>>, regex |-> r, groups |-> g] :
        r \in { "", "^([a-z]*)-(\\d+)?$" },
        g \in { <<>>, <<[index |-> 1, key |-> "app"]>> } }

AdvisoryResults ==
    { [advice |-> "advice", suggestedMode |-> "", config |-> NoConfig] }
    \cup { [advice |-> "advice", suggestedMode |-> "STATIC", config |-> c] :
             c \in { pc \in PatternConfigs : pc.delimiter # <<>> /\ pc.mappings # <<>> } }
    \cup { [advice |-> "advice", suggestedMode |-> "PATTERN", config |-> c] :
             c \in PatternConfigs \cup {NoConfig} }
    \cup { [advice |-> "advice", suggestedMode |-> "REGEX", config |-> c] :
             c \in RegexConfigs \cup {NoConfig} }

FailureAdvice == "Failed to analyze patterns. Please try again."

SetMode ==
    /\ isLabelingStudioOpen
    /\ \E m \in Modes : mode' = m
    /\ UNCHANGED <<outerVars, isLabelingStudioOpen, staticLabels, delimiter,
                   mappings, regexPattern, regexGroups, keysToRemove>>

(* The click on Analyze Names, up to the await.                            *)
handleAiAnalysis ==
    /\ isLabelingStudioOpen
    /\ mode \in {"PATTERN", "REGEX"}
    /\ pendingCalls < MaxCalls
    /\ isAnalyzing' = TRUE
    /\ pendingCalls' = pendingCalls + 1
    /\ UNCHANGED <<tableVars, viewVars, rejectsEmpty, aiAdvice,
                   isLabelingStudioOpen, studioParams>>

(* Variant: a suggested PATTERN or REGEX configuration is applied at once. *)
AnalysisResolved_appliesAtOnce ==
    /\ pendingCalls > 0
    /\ \E result \in AdvisoryResults :
          /\ aiAdvice' = result.advice
          /\ mode' = IF result.suggestedMode # "" THEN result.suggestedMode ELSE mode
          /\ payload' = IF result.suggestedMode \in {"PATTERN", "REGEX"}
                        THEN BuildPayload([id \in selectedIds |-> PreviewEntry(resources[id])])
                        ELSE payload
    /\ isAnalyzing' = FALSE
    /\ pendingCalls' = pendingCalls - 1
    /\ UNCHANGED <<resources, selectedIds, viewVars, rejectsEmpty,
                   isLabelingStudioOpen, staticLabels, keysToRemove, delimiter,
                   mappings, regexPattern, regexGroups>>

(* Variant: suggested mappings and groups are appended to the lists the    *)
(* panels hold.                                                            *)
AnalysisResolved_merges ==
    /\ pendingCalls > 0
    /\ \E result \in AdvisoryResults :
          LET pattern == result.suggestedMode = "PATTERN" /\ result.config # NoConfig
              regex == result.suggestedMode = "REGEX" /\ result.config # NoConfig
          IN /\ aiAdvice' = result.advice
             /\ mode' = IF result.suggestedMode # "" THEN result.suggestedMode ELSE mode
             /\ delimiter' = IF pattern /\ result.config.delimiter # <<>>
                             THEN result.config.delimiter ELSE delimiter
             /\ mappings' = IF pattern /\ Len(result.config.mappings) > 0
                            THEN mappings \o result.config.mappings ELSE mappings
             /\ regexPattern' = IF regex /\ result.config.regex # ""
                                THEN result.config.regex ELSE regexPattern
             /\ regexGroups' = IF regex /\ Len(result.config.groups) > 0
                               THEN regexGroups \o result.config.groups ELSE regexGroups
    /\ isAnalyzing' = FALSE
    /\ pendingCalls' = pendingCalls - 1
    /\ UNCHANGED <<tableVars, viewVars, rejectsEmpty, isLabelingStudioOpen,
                   staticLabels, keysToRemove>>

(* The continuation after the await when the call returned a result, with  *)
(* the finally clause.                                                     *)
AnalysisResolved ==
    /\ pendingCalls > 0
    /\ \E result \in AdvisoryResults :
          LET pattern == result.suggestedMode = "PATTERN" /\ result.config # NoConfig
              regex == result.suggestedMode = "REGEX" /\ result.config # NoConfig
          IN /\ aiAdvice' = result.advice
             /\ mode' = IF result.suggestedMode # "" THEN result.suggestedMode ELSE mode
             /\ delimiter' = IF pattern /\ result.config.delimiter # <<>>
                             THEN result.config.delimiter ELSE delimiter
             /\ mappings' = IF pattern /\ Len(result.config.mappings) > 0
                            THEN result.config.mappings ELSE mappings
             /\ regexPattern' = IF regex /\ result.config.regex # ""
                                THEN result.config.regex ELSE regexPattern
             /\ regexGroups' = IF regex /\ Len(result.config.groups) > 0
                               THEN result.config.groups ELSE regexGroups
    /\ isAnalyzing' = FALSE
    /\ pendingCalls' = pendingCalls - 1
    /\ UNCHANGED <<tableVars, viewVars, rejectsEmpty, isLabelingStudioOpen,
                   staticLabels, keysToRemove>>

(* Variant: the catch clause also falls back to the STATIC mode.           *)
AnalysisRejected_resetsMode ==
    /\ pendingCalls > 0
    /\ aiAdvice' = FailureAdvice
    /\ mode' = "STATIC"
    /\ isAnalyzing' = FALSE
    /\ pendingCalls' = pendingCalls - 1
    /\ UNCHANGED <<tableVars, viewVars, rejectsEmpty, isLabelingStudioOpen,
                   staticLabels, delimiter, mappings, regexPattern, regexGroups,
                   keysToRemove>>

(* The catch clause (the call was rejected, or returned nothing the        *)
(* handler can read), with the finally clause.                             *)
AnalysisRejected ==
    /\ pendingCalls > 0
    /\ aiAdvice' = FailureAdvice
    /\ isAnalyzing' = FALSE
    /\ pendingCalls' = pendingCalls - 1
    /\ UNCHANGED <<tableVars, viewVars, rejectsEmpty, isLabelingStudioOpen,
                   studioParams>>

InitAdvisory ==
    /\ resources \in { inv \in Inventories : inv["r1"].labels = NoLabels }
    /\ selectedIds = {"r1", "r2"}
    /\ isLabelingStudioOpen = FALSE
    /\ mode = "STATIC"
    /\ StudioConstructed
    /\ payload = NoPayload
    /\ ViewConstructed
    /\ filteredResources = <<"r1", "r2">>
    /\ itemsPerPage = 2
    /\ rejectsEmpty = {"key"}

NextAdvisory ==
    \/ OpenStudio
    \/ CloseStudio
    \/ SetMode
    \/ handleAiAnalysis
    \/ AnalysisResolved
    \/ AnalysisRejected
    \/ SetDelimiter
    \/ MappingSetKey
    \/ SetRegexPattern
    \/ handleApply
    \/ StoreFeedback

SpecAdvisory == InitAdvisory /\ [][NextAdvisory]_vars

(***************************************************************************)
(* The resource table (src/unnamed/part_001): grouping, collapsing and     *)
(* pagination of the filtered resources.  filteredResources, currentPage   *)
(* and itemsPerPage are what the useResourceFilter hook returns;           *)
(* filteredResources holds the ids of the filtered resources in their      *)
(* sorted order.                                                           *)
(***************************************************************************)
TableIds == {"r1", "r2", "r3"}

Unassigned == <<"U", "n", "a", "s", "s", "i", "g", "n", "e", "d">>

GroupTexts == { <<>>, <<"a">>, <<"7">>, Unassigned }

EnvLabels == { NoLabels } \cup { [k \in {"env"} |-> v] : v \in GroupTexts }

TableInventories ==
    { [id \in TableIds |->
          [id |-> id,
           name |-> <<"a", "-">>,
           labels |-> CASE id = "r1" -> l1
                        [] id = "r2" -> l2
                        [] OTHER -> [k \in {"env", "app"} |-> <<"a">>]]]
      : l1 \in EnvLabels, l2 \in EnvLabels }

PageSizes == {2, 3}

(* The filtered resources in any sort order.                               *)
ViewsOf(ids) ==
    UNION { { v \in [1..n -> ids] : \A i, j \in 1..n : v[i] = v[j] => i = j }
            : n \in 0..Cardinality(ids) }

Views == ViewsOf(DOMAIN resources)

(* UTF-16 code units of the characters of the model's texts.               *)
CodeUnit(c) ==
    CASE c = "-" -> 45   [] c = "7" -> 55   [] c = "A" -> 65   [] c = "U" -> 85
      [] c = "a" -> 97   [] c = "b" -> 98   [] c = "d" -> 100  [] c = "e" -> 101
      [] c = "g" -> 103  [] c = "i" -> 105  [] c = "n" -> 110  [] c = "s" -> 115

(* The default comparison of Array.prototype.sort: by code units, a proper *)
(* prefix first.                                                           *)
RECURSIVE StringLess(_, _)
StringLess(a, b) ==
    IF a = <<>> THEN b # <<>>
    ELSE IF b = <<>> THEN FALSE
    ELSE IF a[1] = b[1] THEN StringLess(Tail(a), Tail(b))
    ELSE CodeUnit(a[1]) < CodeUnit(b[1])

RECURSIVE InsertString(_, _)
InsertString(sorted, k) ==
    IF sorted = <<>> THEN <<k>>
    ELSE IF StringLess(k, sorted[Len(sorted)])
         THEN Append(InsertString(SubSeq(sorted, 1, Len(sorted) - 1), k),
                     sorted[Len(sorted)])
         ELSE Append(sorted, k)

(* Variant: the keys stay in the order in which the groups were created.   *)
SortStrings_insertionOrder(keys) == keys

RECURSIVE SortStrings(_)
SortStrings(keys) ==
    IF keys = <<>> THEN <<>>
    ELSE InsertString(SortStrings(SubSeq(keys, 1, Len(keys) - 1)), keys[Len(keys)])

(* r.labels[groupByLabel] || noLabelKey                                    *)
GroupValue(r, groupBy) ==
    LET val == IF groupBy \in DOMAIN r.labels THEN r.labels[groupBy] ELSE Undefined
    IN IF Truthy(val) THEN val ELSE Unassigned

(* The keys of the groups map, in the order of their insertion.            *)
RECURSIVE GroupKeys(_, _)
GroupKeys(filtered, groupBy) ==
    IF filtered = <<>> THEN <<>>
    ELSE LET before == GroupKeys(SubSeq(filtered, 1, Len(filtered) - 1), groupBy)
             val == GroupValue(resources[filtered[Len(filtered)]], groupBy)
         IN IF \E i \in DOMAIN before : before[i] = val
            THEN before ELSE Append(before, val)

(* Variant: a resource is put at the head of its group's array.            *)
GroupResources_unshift(filtered, groupBy, key) ==
    LET members == SelectSeq(filtered, LAMBDA id : GroupValue(resources[id], groupBy) = key)
    IN [i \in 1..Len(members) |-> members[Len(members) + 1 - i]]

(* groups.get(key)                                                         *)
GroupResources(filtered, groupBy, key) ==
    SelectSeq(filtered, LAMBDA id : GroupValue(resources[id], groupBy) = key)

ResourceItem(id) == [type |-> "resource", data |-> resources[id]]

HeaderItem(key, count, isCollapsed) ==
    [type |-> "header", key |-> key, label |-> key, count |-> count,
     isCollapsed |-> isCollapsed]

ResourceItems(ids) == [i \in 1..Len(ids) |-> ResourceItem(ids[i])]

(* Variant: the member rows are pushed whether or not the group is         *)
(* collapsed.                                                              *)
GroupItems_alwaysMembers(groupResources, key, collapsed) ==
    <<HeaderItem(key, Len(groupResources), key \in collapsed)>>
    \o ResourceItems(groupResources)

(* The callback of sortedKeys.forEach: the header and, if the group is not *)
(* collapsed, its resources.                                               *)
GroupItems(groupResources, key, collapsed) ==
    <<HeaderItem(key, Len(groupResources), key \in collapsed)>>
    \o (IF key \in collapsed THEN <<>> ELSE ResourceItems(groupResources))

RECURSIVE Flatten(_, _, _, _, _)
Flatten(filtered, groupBy, collapsed, sortedKeys, i) ==
    IF i > Len(sortedKeys) THEN <<>>
    ELSE GroupItems(GroupResources(filtered, groupBy, sortedKeys[i]),
                    sortedKeys[i], collapsed)
         \o Flatten(filtered, groupBy, collapsed, sortedKeys, i + 1)

DisplayItemsOf(filtered, groupBy, collapsed) ==
    IF groupBy = "" THEN ResourceItems(filtered)
    ELSE Flatten(filtered, groupBy, collapsed,
                 SortStrings(GroupKeys(filtered, groupBy)), 1)

displayItems == DisplayItemsOf(filteredResources, groupByLabel, collapsedGroups)

totalItems == Len(displayItems)

(* Math.ceil(totalItems / itemsPerPage)                                    *)
totalPages == (totalItems + itemsPerPage - 1) \div itemsPerPage

(* Variant: the page index is read zero-based.                             *)
startIndex_zeroBased == currentPage * itemsPerPage

startIndex == (currentPage - 1) * itemsPerPage

(* Array.prototype.slice(from, to) for from, to >= 0.                      *)
Slice(arr, from, to) ==
    LET last == IF to < Len(arr) THEN to ELSE Len(arr)
    IN IF from >= last THEN <<>> ELSE SubSeq(arr, from + 1, last)

paginatedDisplayItems == Slice(displayItems, startIndex, startIndex + itemsPerPage)

(* The page-reset effect has work to do: it runs after the render that     *)
(* changed totalPages or the current page and before the next event is     *)
(* handled.                                                                *)
PageResetDue == currentPage > totalPages /\ totalPages > 0

PageResetEffect ==
    /\ PageResetDue
    /\ currentPage' = 1
    /\ UNCHANGED <<tableVars, aiVars, rejectsEmpty, isLabelingStudioOpen,
                   studioParams, filteredResources, groupByLabel,
                   collapsedGroups, itemsPerPage>>

(* The hook returns another filtered (and sorted) set after the filter     *)
(* configuration changed.                                                  *)
FilterChange ==
    /\ ~PageResetDue
    /\ \E v \in Views : filteredResources' = v
    /\ UNCHANGED <<tableVars, aiVars, rejectsEmpty, isLabelingStudioOpen,
                   studioParams, groupByLabel, collapsedGroups, currentPage,
                   itemsPerPage>>

availableLabelKeys == UNION { DOMAIN resources[id].labels : id \in DOMAIN resources }

setGroupByLabel ==
    /\ ~PageResetDue
    /\ \E k \in availableLabelKeys \cup {""} : groupByLabel' = k
    /\ UNCHANGED <<tableVars, aiVars, rejectsEmpty, isLabelingStudioOpen,
                   studioParams, filteredResources, collapsedGroups,
                   currentPage, itemsPerPage>>

(* The updater passed to setCollapsedGroups.                               *)
ToggleGroup(prev, groupKey) ==
    IF groupKey \in prev THEN prev \ {groupKey} ELSE prev \cup {groupKey}

(* The click on a header row of the page on screen.                        *)
toggleGroupCollapse ==
    /\ ~PageResetDue
    /\ \E i \in DOMAIN paginatedDisplayItems :
          /\ paginatedDisplayItems[i].type = "header"
          /\ collapsedGroups' = ToggleGroup(collapsedGroups, paginatedDisplayItems[i].key)
    /\ UNCHANGED <<tableVars, aiVars, rejectsEmpty, isLabelingStudioOpen,
                   studioParams, filteredResources, groupByLabel, currentPage,
                   itemsPerPage>>

(* The pagination control, shown while there are filtered resources,       *)
(* moves to one of the pages it lists.                                     *)
setCurrentPage ==
    /\ ~PageResetDue
    /\ Len(filteredResources) > 0
    /\ \E p \in 1..totalPages : currentPage' = p
    /\ UNCHANGED <<tableVars, aiVars, rejectsEmpty, isLabelingStudioOpen,
                   studioParams, filteredResources, groupByLabel,
                   collapsedGroups, itemsPerPage>>

InitTable ==
    /\ resources \in TableInventories
    /\ selectedIds = {}
    /\ isLabelingStudioOpen = FALSE
    /\ mode = "STATIC"
    /\ StudioConstructed
    /\ payload = NoPayload
    /\ ViewConstructed
    /\ filteredResources = <<"r1", "r2", "r3">>
    /\ itemsPerPage \in PageSizes
    /\ rejectsEmpty = {"key"}

NextTable ==
    \/ FilterChange
    \/ setGroupByLabel
    \/ toggleGroupCollapse
    \/ setCurrentPage
    \/ PageResetEffect

SpecTable == InitTable /\ [][NextTable]_vars

(***************************************************************************)
(* Selection in the table and the bulk apply of the studio over it.  The   *)
(* collection is a prop of the table: the owner may hand over a collection *)
(* from which a resource has gone while the table still holds its id in    *)
(* the selection.                                                          *)
(***************************************************************************)
toggleSelectAll ==
    /\ selectedIds' = IF Cardinality(selectedIds) > 0
                         /\ Cardinality(selectedIds) = Len(filteredResources)
                      THEN {}
                      ELSE Range(filteredResources)
    /\ UNCHANGED <<resources, payload, viewVars, aiVars, rejectsEmpty,
                   isLabelingStudioOpen, studioParams>>

(* The checkbox of a resource row of the page on screen.                   *)
toggleSelect ==
    /\ \E i \in DOMAIN paginatedDisplayItems :
          /\ paginatedDisplayItems[i].type = "resource"
          /\ LET id == paginatedDisplayItems[i].data.id
             IN selectedIds' = IF id \in selectedIds THEN selectedIds \ {id}
                               ELSE selectedIds \cup {id}
    /\ UNCHANGED <<resources, payload, viewVars, aiVars, rejectsEmpty,
                   isLabelingStudioOpen, studioParams>>

(* The owner hands over the collection without one of its resources; the   *)
(* hook filters the new collection.                                        *)
CollectionReload ==
    /\ \E gone \in DOMAIN resources :
          /\ resources' = [id \in DOMAIN resources \ {gone} |-> resources[id]]
          /\ filteredResources' = SelectSeq(filteredResources, LAMBDA id : id # gone)
    /\ UNCHANGED <<selectedIds, payload, aiVars, rejectsEmpty,
                   isLabelingStudioOpen, studioParams, groupByLabel,
                   collapsedGroups, currentPage, itemsPerPage>>

InitSelection ==
    /\ resources \in { inv \in Inventories : inv["r1"].name = <<"a", "-">> }
    /\ selectedIds = {}
    /\ isLabelingStudioOpen = FALSE
    /\ mode = "STATIC"
    /\ StudioConstructed
    /\ payload = NoPayload
    /\ ViewConstructed
    /\ filteredResources = <<"r1", "r2">>
    /\ itemsPerPage = 2
    /\ rejectsEmpty = {"key"}

NextSelection ==
    \/ toggleSelectAll
    \/ toggleSelect
    \/ FilterChange
    \/ CollectionReload
    \/ OpenStudio
    \/ CloseStudio
    \/ StaticSetKey
    \/ StaticSetValue
    \/ handleApply
    \/ StoreFeedback

SpecSelection == InitSelection /\ [][NextSelection]_vars

(***************************************************************************)
(* Properties.                                                             *)
(***************************************************************************)
Count(seq, x) == Cardinality({ i \in DOMAIN seq : seq[i] = x })

Changes(r) == ResourceResult(r).changes

Candidate(r) == ResourceResult(r).newLabels

IsWrite(w) == w.key # "" /\ w.value # <<>> /\ w.value # Undefined

(* What each rule row asks for, in row order, before the empty-text test. *)
RawWrites(r) ==
    CASE mode = "STATIC" ->
           [i \in 1..Len(staticLabels) |->
               [key |-> staticLabels[i].key, value |-> staticLabels[i].value]]
      [] mode = "PATTERN" ->
           [i \in 1..Len(mappings) |->
               [key |-> mappings[i].key,
                value |-> ArrayAt(Split(r.name, delimiter), mappings[i].position)]]
      [] mode = "REGEX" ->
           LET regex == NewRegExp(regexPattern)
               match == StringMatch(r.name, regex)
           IN IF regex.valid /\ match.matched
              THEN [i \in 1..Len(regexGroups) |->
                       [key |-> regexGroups[i].key,
                        value |-> ArrayAt(match.groups, regexGroups[i].index)]]
              ELSE <<>>
      [] mode = "CLEANUP" -> <<>>

(* The writes a rule performs on resource r, in row order.                 *)
RuleWrites(r) == SelectSeq(RawWrites(r), IsWrite)

WriteModes == {"STATIC", "PATTERN", "REGEX"}

(* C1: in STATIC, PATTERN and REGEX mode every write (key, v) of a rule   *)
(* on a selected resource leaves an ADD(key, v) record when the key is     *)
(* absent from the original labels, an UPDATE(key, old, v) record when it  *)
(* is present with another value, and no record when it is present with v. *)
C1_ChangeRecordPerWrite ==
    mode \in WriteModes =>
      \A r \in selectedResourcesList :
        LET w == RuleWrites(r)
            ch == Changes(r)
        IN \A i \in DOMAIN w :
             LET k == w[i].key
                 v == w[i].value
             IN IF k \notin DOMAIN r.labels
                THEN /\ Count(ch, AddChange(k, v)) = Count(w, w[i])
                     /\ \A j \in DOMAIN ch : ch[j].key = k => ch[j].type = "ADD"
                ELSE IF r.labels[k] # v
                     THEN /\ Count(ch, UpdateChange(k, r.labels[k], v)) = Count(w, w[i])
                          /\ \A j \in DOMAIN ch : ch[j].key = k => ch[j].type = "UPDATE"
                     ELSE \A j \in DOMAIN ch :
                             ch[j].key = k =>
                               ch[j].type = "UPDATE" /\ ch[j].newValue # v

C1_Witness ==
    /\ isLabelingStudioOpen
    /\ mode \in WriteModes
    /\ \E r \in selectedResourcesList : \E i \in DOMAIN RuleWrites(r) :
          /\ RuleWrites(r)[i].key \notin DOMAIN r.labels
          /\ AddChange(RuleWrites(r)[i].key, RuleWrites(r)[i].value) \in Range(Changes(r))
    /\ \E r \in selectedResourcesList : \E i \in DOMAIN RuleWrites(r) :
          /\ RuleWrites(r)[i].key \in DOMAIN r.labels
          /\ r.labels[RuleWrites(r)[i].key] # RuleWrites(r)[i].value
          /\ UpdateChange(RuleWrites(r)[i].key, r.labels[RuleWrites(r)[i].key],
                          RuleWrites(r)[i].value) \in Range(Changes(r))
    /\ \E r \in selectedResourcesList : \E i \in DOMAIN RuleWrites(r) :
          /\ RuleWrites(r)[i].key \in DOMAIN r.labels
          /\ r.labels[RuleWrites(r)[i].key] = RuleWrites(r)[i].value
          /\ \A j \in DOMAIN Changes(r) : Changes(r)[j].key # RuleWrites(r)[i].key

(* The number of change records the active strategy owes resource r: one   *)
(* per write that differs from the original label, one per distinct listed *)
(* key that the original map holds.                                        *)
ExpectedChangeCount(r) ==
    IF mode = "CLEANUP"
    THEN Cardinality((Range(keysToRemove) \ {""}) \cap DOMAIN r.labels)
    ELSE Cardinality({ i \in DOMAIN RuleWrites(r) :
                          \/ RuleWrites(r)[i].key \notin DOMAIN r.labels
                          \/ r.labels[RuleWrites(r)[i].key] # RuleWrites(r)[i].value })

(* C2: a selected resource is in the preview, and in the apply payload,    *)
(* exactly when the strategy produces at least one change record for it;   *)
(* every preview entry has a non-empty change list.                        *)
C2_PreviewIffChanges ==
    /\ [](/\ DOMAIN previewData \subseteq selectedIds
          /\ \A id \in selectedIds :
                id \in DOMAIN previewData <=> ExpectedChangeCount(resources[id]) > 0
          /\ \A id \in DOMAIN previewData : Len(previewData[id].changes) >= 1
          /\ DOMAIN BuildPayload(previewData) = DOMAIN previewData)
    /\ [][payload' # payload /\ payload' # NoPayload =>
            DOMAIN payload' =
              { id \in selectedIds : ExpectedChangeCount(resources[id]) > 0 }]_vars

C2_Witness ==
    /\ isLabelingStudioOpen
    /\ ~ApplyDisabled
    /\ \E a, b \in selectedIds :
          /\ a \in DOMAIN previewData /\ Len(previewData[a].changes) >= 1
          /\ a \in DOMAIN BuildPayload(previewData)
          /\ b \notin DOMAIN previewData /\ Changes(resources[b]) = <<>>
          /\ b \notin DOMAIN BuildPayload(previewData)

(* The keys the active strategy writes or removes on resource r.           *)
KeysTouched(r) ==
    IF mode = "CLEANUP" THEN Range(keysToRemove)
    ELSE { RuleWrites(r)[i].key : i \in DOMAIN RuleWrites(r) }

CompleteMapFor(id, map) ==
    \A k \in DOMAIN resources[id].labels \ KeysTouched(resources[id]) :
       k \in DOMAIN map /\ map[k] = resources[id].labels[k]

(* C3: the apply payload maps each previewed resource to its complete new  *)
(* label map: every original label whose key the strategy neither wrote    *)
(* nor removed is in the payload map with its original value.              *)
C3_PayloadIsCompleteMap ==
    /\ \A id \in DOMAIN previewData :
          /\ CompleteMapFor(id, BuildPayload(previewData)[id])
          /\ BuildPayload(previewData)[id] = Candidate(resources[id])
    /\ payload # NoPayload =>
          \A id \in DOMAIN payload :
             /\ CompleteMapFor(id, payload[id])
             /\ payload[id] = Candidate(resources[id])

C3_Witness ==
    /\ payload # NoPayload
    /\ \E id \in DOMAIN payload :
          /\ payload[id] # resources[id].labels
          /\ \E k \in DOMAIN resources[id].labels \ KeysTouched(resources[id]) :
                payload[id][k] = resources[id].labels[k]

StaticRowApplies(i) == staticLabels[i].key # "" /\ staticLabels[i].value # <<>>

LastStaticRow(k) ==
    CHOOSE i \in 1..Len(staticLabels) :
       /\ StaticRowApplies(i) /\ staticLabels[i].key = k
       /\ \A j \in (i + 1)..Len(staticLabels) :
             ~(StaticRowApplies(j) /\ staticLabels[j].key = k)

StaticKeys == { staticLabels[i].key : i \in { j \in 1..Len(staticLabels) : StaticRowApplies(j) } }

(* C4: in STATIC mode every row with a non-empty key and a non-empty value *)
(* is applied verbatim and identically to every selected resource (all     *)
(* candidate maps hold the same row value for the key), and rows with an   *)
(* empty key or an empty value contribute no label and no change record.   *)
C4_StaticAppliedIdentically ==
    mode = "STATIC" =>
      \A r \in selectedResourcesList :
        /\ \A k \in StaticKeys :
              /\ k \in DOMAIN Candidate(r)
              /\ Candidate(r)[k] = staticLabels[LastStaticRow(k)].value
              /\ \A q \in selectedResourcesList : Candidate(q)[k] = Candidate(r)[k]
        /\ \A k \in DOMAIN Candidate(r) \ StaticKeys :
              k \in DOMAIN r.labels /\ Candidate(r)[k] = r.labels[k]
        /\ DOMAIN r.labels \subseteq DOMAIN Candidate(r)
        /\ \A j \in DOMAIN Changes(r) : Changes(r)[j].key \in StaticKeys

C4_Witness ==
    /\ isLabelingStudioOpen
    /\ mode = "STATIC"
    /\ Cardinality(selectedIds) = 2
    /\ \E i, j \in 1..Len(staticLabels) :
          /\ StaticRowApplies(i)
          /\ staticLabels[j].key # "" /\ staticLabels[j].value = <<>>
          /\ staticLabels[j].key # staticLabels[i].key
          /\ \A r \in selectedResourcesList :
                /\ Candidate(r)[staticLabels[i].key] = staticLabels[i].value
                /\ staticLabels[j].key \notin DOMAIN Candidate(r)

(* Candidate and original agree on key k: both lack it or both hold the    *)
(* same value.                                                             *)
Untouched(r, k) ==
    /\ k \in DOMAIN Candidate(r) <=> k \in DOMAIN r.labels
    /\ k \in DOMAIN r.labels => Candidate(r)[k] = r.labels[k]

Tokens(r) == Split(r.name, delimiter)

IndexesToken(r, i) == mappings[i].position \in 0..(Len(Tokens(r)) - 1)

TokenOf(r, i) == Tokens(r)[mappings[i].position + 1]

(* C5 as stated: in PATTERN mode every mapping with a non-empty key whose  *)
(* position indexes an existing token sets the candidate's key to that     *)
(* token's text, whatever the text is.                                     *)
C5_AsStated ==
    mode = "PATTERN" =>
      \A r \in selectedResourcesList : \A i \in 1..Len(mappings) :
         (mappings[i].key # "" /\ IndexesToken(r, i)) =>
            /\ mappings[i].key \in DOMAIN Candidate(r)
            /\ Candidate(r)[mappings[i].key] = TokenOf(r, i)

PatternWrites(r, i) ==
    mappings[i].key # "" /\ IndexesToken(r, i) /\ TokenOf(r, i) # <<>>

(* C5 amended: in PATTERN mode a mapping with a non-empty key whose        *)
(* position indexes an existing non-empty token sets the candidate's key   *)
(* to that token's text (the last such mapping of a key wins); a mapping   *)
(* whose token is the empty string writes nothing.                         *)
C5_PatternSetsNonEmptyToken ==
    mode = "PATTERN" =>
      \A r \in selectedResourcesList :
        /\ \A i \in 1..Len(mappings) :
              (/\ PatternWrites(r, i)
               /\ \A j \in (i + 1)..Len(mappings) :
                     ~(PatternWrites(r, j) /\ mappings[j].key = mappings[i].key)) =>
                 /\ mappings[i].key \in DOMAIN Candidate(r)
                 /\ Candidate(r)[mappings[i].key] = TokenOf(r, i)
        /\ \A k \in KeyTexts \cup DOMAIN r.labels :
              (\A i \in 1..Len(mappings) : ~(PatternWrites(r, i) /\ mappings[i].key = k)) =>
                 Untouched(r, k)

C5_Witness ==
    /\ isLabelingStudioOpen
    /\ mode = "PATTERN"
    /\ \E r \in selectedResourcesList : \E i, j \in 1..Len(mappings) :
          /\ PatternWrites(r, i)
          /\ Candidate(r)[mappings[i].key] = TokenOf(r, i)
          /\ Candidate(r) # r.labels
          /\ mappings[j].key # "" /\ mappings[j].key # mappings[i].key
          /\ IndexesToken(r, j) /\ TokenOf(r, j) = <<>>
          /\ mappings[j].key \notin DOMAIN Candidate(r)

RegexOf == NewRegExp(regexPattern)

MatchOf(r) == StringMatch(r.name, RegexOf)

(* groupIndex of mapping i denotes a capture group (1..n) that took part   *)
(* in the match of r.                                                      *)
Participates(r, i) ==
    /\ regexGroups[i].index \in 1..(Len(MatchOf(r).groups) - 1)
    /\ MatchOf(r).groups[regexGroups[i].index + 1] # Undefined

CapturedText(r, i) == MatchOf(r).groups[regexGroups[i].index + 1]

(* C6 as stated: in REGEX mode, on a match, a mapping with a non-empty key *)
(* sets the key to the group's captured text exactly when its groupIndex   *)
(* denotes a participating capture group; others write nothing.            *)
C6_AsStated ==
    (mode = "REGEX" /\ RegexOf.valid) =>
      \A r \in selectedResourcesList :
        MatchOf(r).matched =>
          /\ \A i \in 1..Len(regexGroups) :
                (regexGroups[i].key # "" /\ Participates(r, i)) =>
                   /\ regexGroups[i].key \in DOMAIN Candidate(r)
                   /\ Candidate(r)[regexGroups[i].key] = CapturedText(r, i)
          /\ \A k \in KeyTexts \cup DOMAIN r.labels :
                (\A i \in 1..Len(regexGroups) :
                    ~(regexGroups[i].key = k /\ k # "" /\ Participates(r, i))) =>
                   Untouched(r, k)

MatchEntry(r, i) == ArrayAt(MatchOf(r).groups, regexGroups[i].index)

RegexWrites(r, i) ==
    /\ regexGroups[i].key # ""
    /\ regexGroups[i].index \in 0..(Len(MatchOf(r).groups) - 1)
    /\ MatchEntry(r, i) # Undefined
    /\ MatchEntry(r, i) # <<>>

(* C6 amended: in REGEX mode, on a match, a mapping with a non-empty key   *)
(* writes exactly when match[groupIndex] is a non-empty string: index 0    *)
(* writes the whole matched text, an index 1..n writes the captured text   *)
(* of a participating group that captured at least one character; groups   *)
(* that did not participate or captured the empty string and out-of-range  *)
(* indexes write nothing; the last writing mapping of a key wins.          *)
C6_RegexSetsNonEmptyEntry ==
    (mode = "REGEX" /\ RegexOf.valid) =>
      \A r \in selectedResourcesList :
        MatchOf(r).matched =>
          /\ \A i \in 1..Len(regexGroups) :
                (/\ RegexWrites(r, i)
                 /\ \A j \in (i + 1)..Len(regexGroups) :
                       ~(RegexWrites(r, j) /\ regexGroups[j].key = regexGroups[i].key)) =>
                   /\ regexGroups[i].key \in DOMAIN Candidate(r)
                   /\ Candidate(r)[regexGroups[i].key] = MatchEntry(r, i)
                   /\ regexGroups[i].index = 0 => Candidate(r)[regexGroups[i].key] = r.name
          /\ \A k \in KeyTexts \cup DOMAIN r.labels :
                (\A i \in 1..Len(regexGroups) :
                    ~(RegexWrites(r, i) /\ regexGroups[i].key = k)) =>
                   Untouched(r, k)

C6_Witness ==
    /\ isLabelingStudioOpen
    /\ mode = "REGEX"
    /\ RegexOf.valid
    /\ \E r \in selectedResourcesList : \E i, j \in 1..Len(regexGroups) :
          /\ MatchOf(r).matched
          /\ regexGroups[i].key # "" /\ Participates(r, i)
          /\ CapturedText(r, i) # <<>>
          /\ Candidate(r)[regexGroups[i].key] = CapturedText(r, i)
          /\ Candidate(r) # r.labels
          /\ regexGroups[j].key # "" /\ regexGroups[j].key # regexGroups[i].key
          /\ Participates(r, j) /\ CapturedText(r, j) = <<>>
          /\ regexGroups[j].key \notin DOMAIN Candidate(r)

(* C7: in REGEX mode a resource whose name does not match gets no change:  *)
(* no preview entry and no payload entry, while the matching resources of  *)
(* the same selection are still processed.                                 *)
C7_NoMatchNoChange ==
    (mode = "REGEX" /\ RegexOf.valid) =>
      /\ \A r \in selectedResourcesList :
            IF MatchOf(r).matched
            THEN r.id \in DOMAIN previewData <=> ExpectedChangeCount(r) > 0
            ELSE /\ r.id \notin DOMAIN previewData
                 /\ r.id \notin DOMAIN BuildPayload(previewData)
                 /\ Changes(r) = <<>>
                 /\ Candidate(r) = r.labels
      /\ payload # NoPayload =>
            \A id \in DOMAIN payload : MatchOf(resources[id]).matched

C7_Witness ==
    /\ isLabelingStudioOpen
    /\ mode = "REGEX"
    /\ RegexOf.valid
    /\ \E r, q \in selectedResourcesList :
          /\ ~MatchOf(r).matched
          /\ r.id \notin DOMAIN previewData
          /\ \E i \in 1..Len(regexGroups) :
                regexGroups[i].key # "" /\ regexGroups[i].index = 0
          /\ MatchOf(q).matched
          /\ q.id \in DOMAIN previewData

(* The sources of RegexSources that the RegExp constructor rejects.        *)
UnparseableSources == {"("}

(* C8: in REGEX mode an unparseable expression does not throw out of the   *)
(* preview computation and disables the strategy for the batch: no         *)
(* selected resource has a change, the preview is empty and Apply is       *)
(* disabled.                                                               *)
C8_InvalidRegexDisablesBatch ==
    (mode = "REGEX" /\ regexPattern \in UnparseableSources) =>
      /\ DOMAIN previewData = {}
      /\ \A r \in selectedResourcesList : Changes(r) = <<>> /\ Candidate(r) = r.labels
      /\ ApplyDisabled
      /\ ~ENABLED handleApply

C8_Witness ==
    /\ isLabelingStudioOpen
    /\ mode = "REGEX"
    /\ regexPattern = "("
    /\ isValid
    /\ Cardinality(selectedIds) = 2
    /\ DOMAIN previewData = {}

ListedKeys == Range(keysToRemove) \ {""}

(* C9: CLEANUP can only delete: the candidate map is the original map      *)
(* minus the listed non-empty keys it holds, every change record is a      *)
(* DELETE with the key's original value, and listed keys that are absent   *)
(* are ignored.                                                            *)
C9_CleanupOnlyDeletes ==
    mode = "CLEANUP" =>
      \A r \in selectedResourcesList :
        LET hit == ListedKeys \cap DOMAIN r.labels
        IN /\ Candidate(r) = [k \in DOMAIN r.labels \ hit |-> r.labels[k]]
           /\ \A j \in DOMAIN Changes(r) :
                 /\ Changes(r)[j].type = "DELETE"
                 /\ Changes(r)[j].key \in hit
                 /\ Changes(r)[j].oldValue = r.labels[Changes(r)[j].key]
           /\ { Changes(r)[j].key : j \in DOMAIN Changes(r) } = hit

C9_Witness ==
    /\ isLabelingStudioOpen
    /\ mode = "CLEANUP"
    /\ \E r \in selectedResourcesList :
          /\ \E k \in ListedKeys : k \notin DOMAIN r.labels
          /\ \E k \in ListedKeys :
                /\ k \in DOMAIN r.labels
                /\ k \notin DOMAIN Candidate(r)
                /\ DeleteChange(k, r.labels[k]) \in Range(Changes(r))

RECURSIVE Dedup(_)
Dedup(keys) ==
    IF keys = <<>> THEN <<>>
    ELSE LET init == SubSeq(keys, 1, Len(keys) - 1)
         IN IF keys[Len(keys)] \in Range(init)
            THEN Dedup(init)
            ELSE Append(Dedup(init), keys[Len(keys)])

CleanupWith(r, keys) ==
    RunStrategy(r, "CLEANUP", staticLabels, delimiter, mappings, regexPattern,
                regexGroups, keys)

(* C10: cleanup is idempotent: a key listed twice gives the same change    *)
(* list and candidate map as the key listed once (one DELETE record for    *)
(* it), and a key list holding only keys absent from a resource gives zero *)
(* changes for that resource.                                              *)
C10_CleanupIdempotent ==
    mode = "CLEANUP" =>
      \A r \in selectedResourcesList :
        /\ ResourceResult(r) = CleanupWith(r, Dedup(keysToRemove))
        /\ \A k \in ListedKeys :
              Cardinality({ j \in DOMAIN Changes(r) : Changes(r)[j].key = k })
                = IF k \in DOMAIN r.labels THEN 1 ELSE 0
        /\ ListedKeys \cap DOMAIN r.labels = {} =>
              /\ Changes(r) = <<>>
              /\ Candidate(r) = r.labels
              /\ r.id \notin DOMAIN previewData

C10_Witness ==
    /\ isLabelingStudioOpen
    /\ mode = "CLEANUP"
    /\ \E i, j \in 1..Len(keysToRemove) :
          /\ i < j /\ keysToRemove[i] = keysToRemove[j] /\ keysToRemove[i] # ""
          /\ \E r \in selectedResourcesList :
                /\ keysToRemove[i] \in DOMAIN r.labels
                /\ Changes(r) = <<DeleteChange(keysToRemove[i], r.labels[keysToRemove[i]])>>
          /\ \E q \in selectedResourcesList :
                /\ keysToRemove[i] \notin DOMAIN q.labels
                /\ Changes(q) = <<>>

(***************************************************************************)
(* C12.  A PATTERN or REGEX configuration is valid for apply iff at least  *)
(* one mapping has a non-empty target key, a CLEANUP configuration iff at  *)
(* least one listed key is non-empty; and Apply is enabled only when the   *)
(* gate of the active mode is valid and the preview is non-empty.          *)
(***************************************************************************)
TargetKeys(entries) == { entries[i].key : i \in DOMAIN entries } \ {""}

PreviewNonEmpty == \E r \in selectedResourcesList : ExpectedChangeCount(r) > 0

GateOfOtherModes ==
    CASE mode = "PATTERN" -> TargetKeys(mappings) # {}
      [] mode = "REGEX" -> TargetKeys(regexGroups) # {}
      [] mode = "CLEANUP" -> Range(keysToRemove) \ {""} # {}
      [] OTHER -> isValid

C12_GateOfOtherModes ==
    /\ [](isValid <=> GateOfOtherModes)
    /\ [][payload' # payload /\ payload' # NoPayload
            => GateOfOtherModes /\ PreviewNonEmpty]_vars

(* PATTERN mode, one mapping with a target key next to one without, and    *)
(* Apply has been pressed.                                                 *)
C12_Witness ==
    /\ mode = "PATTERN"
    /\ Len(mappings) = 2
    /\ \E i, j \in 1..2 : mappings[i].key # "" /\ mappings[j].key = ""
    /\ payload # NoPayload

(***************************************************************************)
(* C11.  STATIC validity gate.                                             *)
(***************************************************************************)
RowIndexes == 1..Len(staticLabels)

RowPasses(i) ==
    ~validateKey(staticLabels[i].key) /\ ~validateValue(staticLabels[i].value)

(* C11 as stated: valid iff some row has a non-empty valid key with a      *)
(* non-empty valid value and no row with a non-empty key has a validation  *)
(* error; rows with an empty key do not influence the gate.                *)
C11_AsStated ==
    mode = "STATIC" =>
        (isValid <=>
            /\ \E i \in RowIndexes : /\ staticLabels[i].key # ""
                                     /\ staticLabels[i].value # <<>>
                                     /\ RowPasses(i)
            /\ \A i \in RowIndexes : staticLabels[i].key # "" => RowPasses(i))

RowIsBlank(i) == staticLabels[i].key = "" /\ staticLabels[i].value = <<>>

(* C11: the STATIC configuration is valid for apply iff at least one row   *)
(* has a non-empty key that passes the key validator together with a value *)
(* that passes the value validator, and no row other than a completely     *)
(* empty one (empty key and empty value) has a key or value validation     *)
(* error; only completely empty rows do not influence the gate.            *)
C11_StaticGate ==
    mode = "STATIC" =>
        (isValid <=>
            /\ \E i \in RowIndexes : staticLabels[i].key # "" /\ RowPasses(i)
            /\ \A i \in RowIndexes : ~RowIsBlank(i) => RowPasses(i))

(* A valid row next to a row with an empty key and a value the validator   *)
(* rejects: the gate is closed.                                            *)
C11_Witness ==
    /\ isLabelingStudioOpen
    /\ mode = "STATIC"
    /\ Len(staticLabels) = 2
    /\ staticLabels[1] = [key |-> "env", value |-> <<"a">>]
    /\ staticLabels[2] = [key |-> "", value |-> <<"A">>]
    /\ ~isValid

(***************************************************************************)
(* C13.  In PATTERN mode a mapping whose position does not index a token   *)
(* of the split name (negative, or at least the number of tokens) is       *)
(* silently skipped: it writes no label and creates no change record, and  *)
(* the other mappings of the same resource are applied as if the mapping   *)
(* were not in the list.                                                   *)
(***************************************************************************)
MissesTokens(r, i) ==
    mappings[i].position < 0 \/ mappings[i].position >= Len(Tokens(r))

PatternWithout(r, i) ==
    RunStrategy(r, "PATTERN", staticLabels, delimiter, RemoveAt(mappings, i),
                regexPattern, regexGroups, keysToRemove)

C13_OutOfRangeSkipped ==
    mode = "PATTERN" =>
        \A r \in selectedResourcesList : \A i \in DOMAIN mappings :
            MissesTokens(r, i) => ResourceResult(r) = PatternWithout(r, i)

(* A mapping with a negative position and a target key stands before a     *)
(* mapping that writes its token, while the studio is open.                *)
C13_Witness ==
    /\ mode = "PATTERN"
    /\ Len(mappings) = 2
    /\ mappings[1].position < 0 /\ mappings[1].key # ""
    /\ \E r \in selectedResourcesList :
          /\ Len(Changes(r)) = 1
          /\ Changes(r)[1].key = mappings[2].key
    /\ isLabelingStudioOpen

(***************************************************************************)
(* C18.  An advisory result is only used to pre-fill strategy parameters:  *)
(* the step that handles it (success or failure) changes only the advice   *)
(* text, the analyzing flag, the mode and the Pattern/Regex parameters; it *)
(* sends no payload and changes no label.  A payload is sent only by       *)
(* Apply, and labels change only by the store taking over such a payload.  *)
(***************************************************************************)
LabelsOf(collection) == [id \in DOMAIN collection |-> collection[id].labels]

PayloadTakenOver(before, after, p) ==
    /\ DOMAIN after = DOMAIN before
    /\ \A id \in DOMAIN before :
          after[id] = IF id \in DOMAIN p THEN p[id] ELSE before[id]

C18_AdvisoryOnlyPrefills ==
    [][ /\ pendingCalls' < pendingCalls =>
              UNCHANGED <<payload, resources, selectedIds, isLabelingStudioOpen,
                          staticLabels, keysToRemove>>
        /\ (payload' # payload /\ payload' # NoPayload) =>
              /\ pendingCalls' = pendingCalls
              /\ isLabelingStudioOpen /\ ~isLabelingStudioOpen'
              /\ payload' = BuildPayload(previewData)
        /\ LabelsOf(resources') # LabelsOf(resources) =>
              /\ payload # NoPayload
              /\ PayloadTakenOver(LabelsOf(resources), LabelsOf(resources'), payload) ]_vars

(* A suggested PATTERN configuration has been taken over, nothing has been *)
(* sent and no label has changed.                                          *)
C18_Witness ==
    /\ aiAdvice = "advice"
    /\ pendingCalls = 0
    /\ mode = "PATTERN"
    /\ delimiter = <<"b", "-">>
    /\ Len(mappings) = 2 /\ mappings[1].position = 2
    /\ payload = NoPayload
    /\ resources["r1"].labels = NoLabels

(***************************************************************************)
(* C19.  A failed advisory call surfaces only as an advice message: the    *)
(* step that handles it leaves the mode and every strategy parameter       *)
(* unchanged, and with them the selection, the collection and the dialog   *)
(* (all that the manual handlers, the preview and the validity gate read); *)
(* every step that completes a call (success or failure) sets the          *)
(* analyzing flag to false, and the flag is false whenever no call is      *)
(* pending.                                                                *)
(***************************************************************************)
C19_FailureOnlyAdvises ==
    /\ [](pendingCalls = 0 => ~isAnalyzing)
    /\ [][ pendingCalls' < pendingCalls =>
              /\ isAnalyzing' = FALSE
              /\ aiAdvice' = FailureAdvice =>
                    UNCHANGED <<studioParams, tableVars, isLabelingStudioOpen,
                                rejectsEmpty>> ]_vars

(* The failure message is shown, no call is pending, and Apply is offered  *)
(* for a PATTERN configuration.                                            *)
C19_Witness ==
    /\ aiAdvice = FailureAdvice
    /\ pendingCalls = 0
    /\ ~isAnalyzing
    /\ isLabelingStudioOpen
    /\ mode = "PATTERN"
    /\ ~ApplyDisabled

(***************************************************************************)
(* Grouping as the table shows it: the group of a resource is the key of   *)
(* the header above its row when no group is collapsed.                    *)
(***************************************************************************)
ExpandedItems == DisplayItemsOf(filteredResources, groupByLabel, {})

HeaderAbove(items, i) ==
    items[CHOOSE h \in 1..i :
            /\ items[h].type = "header"
            /\ \A j \in (h + 1)..i : items[j].type # "header"]

PlacedIn(id) ==
    { HeaderAbove(ExpandedItems, i).key :
        i \in { j \in DOMAIN ExpandedItems :
                  /\ ExpandedItems[j].type = "resource"
                  /\ ExpandedItems[j].data.id = id } }

(* C14 as stated: with a grouping label key set, a filtered resource is in *)
(* the reserved group "Unassigned" iff it lacks that label key, and every  *)
(* resource that has the key is in the group named by its value.           *)
C14_AsStated ==
    groupByLabel # "" =>
        \A id \in Range(filteredResources) :
            LET labels == resources[id].labels
            IN /\ Unassigned \in PlacedIn(id) <=> groupByLabel \notin DOMAIN labels
               /\ groupByLabel \in DOMAIN labels => PlacedIn(id) = {labels[groupByLabel]}

(***************************************************************************)
(* C15.  Group headers appear in the display sequence in ascending order   *)
(* of the group key string (compared by code units), each group key        *)
(* exactly once, "Unassigned" among the other keys by the same comparison. *)
(***************************************************************************)
Headers(items) == SelectSeq(items, LAMBDA it : it.type = "header")

HeaderKeys(items) == [i \in DOMAIN Headers(items) |-> Headers(items)[i].key]

C15_HeadersAscending ==
    groupByLabel # "" =>
        LET keys == HeaderKeys(displayItems)
        IN /\ \A i \in 1..(Len(keys) - 1) : StringLess(keys[i], keys[i + 1])
           /\ Range(keys) = { GroupValue(resources[id], groupByLabel) :
                                id \in Range(filteredResources) }

(* "Unassigned" stands between the groups "7" and "a", although it was the *)
(* first group met.                                                        *)
C15_Witness ==
    /\ groupByLabel = "env"
    /\ Len(filteredResources) = 3
    /\ GroupValue(resources[filteredResources[1]], "env") = Unassigned
    /\ HeaderKeys(displayItems) = << <<"7">>, Unassigned, <<"a">> >>

(***************************************************************************)
(* C16.  A collapsed group contributes exactly its header row to the       *)
(* display sequence, an expanded group its header followed by all its      *)
(* members; collapsing a group removes exactly its member rows, and        *)
(* toggling the same group twice restores the display sequence.            *)
(***************************************************************************)
RowOf(item) ==
    IF item.type = "header" THEN <<"header", item.key>> ELSE <<"resource", item.data.id>>

Rows(items) == [i \in DOMAIN items |-> RowOf(items[i])]

(* The rows from the header of key up to the next header.                  *)
Segment(items, key) ==
    LET h == CHOOSE i \in DOMAIN items : items[i].type = "header" /\ items[i].key = key
        later == { j \in (h + 1)..Len(items) : items[j].type = "header" }
        last == IF later = {} THEN Len(items)
                ELSE (CHOOSE j \in later : \A x \in later : j <= x) - 1
    IN SubSeq(items, h, last)

C16_CollapseRemovesMembers ==
    groupByLabel # "" =>
        \A k \in Range(GroupKeys(filteredResources, groupByLabel)) :
            LET members == GroupResources(filteredResources, groupByLabel, k)
                memberRows == [i \in DOMAIN members |-> <<"resource", members[i]>>]
                once == ToggleGroup(collapsedGroups, k)
                after == DisplayItemsOf(filteredResources, groupByLabel, once)
                back == DisplayItemsOf(filteredResources, groupByLabel,
                                       ToggleGroup(once, k))
            IN /\ Rows(Segment(displayItems, k)) =
                      IF k \in collapsedGroups THEN << <<"header", k>> >>
                      ELSE << <<"header", k>> >> \o memberRows
               /\ back = displayItems
               /\ k \notin collapsedGroups =>
                      /\ Rows(after) = SelectSeq(Rows(displayItems),
                                                 LAMBDA row : row \notin Range(memberRows))
                      /\ Len(after) = Len(displayItems) - Len(members)

(* A collapsed group of two members next to an expanded group.             *)
C16_Witness ==
    /\ groupByLabel = "env"
    /\ \E i, j \in DOMAIN displayItems :
          /\ displayItems[i].type = "header" /\ displayItems[j].type = "header"
          /\ displayItems[i].isCollapsed /\ displayItems[i].count = 2
          /\ ~displayItems[j].isCollapsed /\ displayItems[j].count = 1

(***************************************************************************)
(* C17 as stated: once a filter, grouping or collapse change has left the  *)
(* current page greater than the new number of pages the current page is   *)
(* 1, and no out-of-range page is rendered (an empty page slice while the  *)
(* display sequence is not empty).                                         *)
(***************************************************************************)
OutOfRangePage == displayItems # <<>> /\ paginatedDisplayItems = <<>>

C17_AsStated ==
    /\ currentPage > totalPages => currentPage = 1
    /\ ~OutOfRangePage

(***************************************************************************)
(* C20.  The engine never fabricates or deletes a resource: the resources  *)
(* handed to the studio are resources of the current collection with       *)
(* selected ids, the ids of a payload are ids of those resources, and a    *)
(* step that sends or takes over a payload keeps every resource of the     *)
(* collection, with its id and name, and changes only labels of ids of the *)
(* payload.                                                                *)
(***************************************************************************)
SelectedResourceIds == { r.id : r \in selectedResourcesList }

Identity(collection) ==
    [id \in DOMAIN collection |-> <<collection[id].id, collection[id].name>>]

C20_NoFabrication ==
    /\ [](/\ SelectedResourceIds \subseteq selectedIds
          /\ SelectedResourceIds \subseteq DOMAIN resources
          /\ \A r \in selectedResourcesList : resources[r.id] = r)
    /\ [][ (payload' # payload /\ payload' # NoPayload) =>
              /\ DOMAIN payload' \subseteq SelectedResourceIds
              /\ resources' = resources ]_vars
    /\ [][ (payload # NoPayload /\ payload' = NoPayload) =>
              /\ Identity(resources') = Identity(resources)
              /\ \A id \in DOMAIN resources :
                    id \notin DOMAIN payload => resources'[id] = resources[id] ]_vars

(* The selection still holds the id of a resource that has gone from the   *)
(* collection, and Apply is offered for the resource that is left.         *)
C20_Witness ==
    /\ isLabelingStudioOpen
    /\ selectedIds = {"r1", "r2"}
    /\ DOMAIN resources = {"r1"}
    /\ DOMAIN previewData = {"r1"}
    /\ ~ApplyDisabled

(***************************************************************************)
(* The change list against the candidate map.                              *)
(***************************************************************************)
(* What a reader of a change list does with one record.                    *)
ApplyChange(labels, ch) ==
    CASE ch.type = "ADD" -> SetLabel(labels, ch.key, ch.value)
      [] ch.type = "UPDATE" -> SetLabel(labels, ch.key, ch.newValue)
      [] ch.type = "DELETE" -> DeleteLabel(labels, ch.key)

RECURSIVE ApplyChanges(_, _)
ApplyChanges(labels, changes) ==
    IF changes = <<>> THEN labels
    ELSE ApplyChanges(ApplyChange(labels, Head(changes)), Tail(changes))

(* C21: for every preview entry, applying the entry's change records in    *)
(* order to the original label map (ADD and UPDATE set the key, DELETE     *)
(* removes it) yields exactly the entry's new label map, which is the map  *)
(* the apply payload carries for the resource.                             *)
C21_AsStated ==
    \A id \in DOMAIN previewData :
       /\ ApplyChanges(previewData[id].original, previewData[id].changes)
            = previewData[id].new
       /\ BuildPayload(previewData)[id] = previewData[id].new

(* C22: the diff is conflict-free: in the change list of every selected    *)
(* resource each label key appears in at most one change record.           *)
C22_AsStated ==
    \A r \in selectedResourcesList :
       \A i, j \in DOMAIN Changes(r) :
          Changes(r)[i].key = Changes(r)[j].key => i = j

(* The change list of the active strategy, with the parameters as they     *)
(* stand, for resource r.                                                  *)
Rerun(r) ==
    RunStrategy(r, mode, staticLabels, delimiter, mappings, regexPattern,
                regexGroups, keysToRemove).changes

(* C23: apply is idempotent: once the store has fed an apply payload back  *)
(* (the labels of each resource of the payload replaced by its payload     *)
(* map), the same strategy with the same parameters produces no change     *)
(* record for any resource of the payload, so the preview over the same    *)
(* selection is empty.                                                     *)
C23_AsStated ==
    [][ (payload # NoPayload /\ payload' = NoPayload) =>
           /\ studioParams' = studioParams
           /\ \A id \in DOMAIN payload : Rerun(resources[id])' = <<>> ]_vars

(* The value an ADD or UPDATE record writes.                               *)
WrittenValue(ch) == IF ch.type = "ADD" THEN ch.value ELSE ch.newValue

(* C24: whenever Apply is enabled in STATIC, PATTERN or REGEX mode, every  *)
(* label key the payload adds or updates passes the key validator and     *)
(* every value it writes passes the value validator.                       *)
C24_AsStated ==
    (isLabelingStudioOpen /\ ~ApplyDisabled /\ mode \in WriteModes) =>
       \A id \in DOMAIN previewData :
          \A i \in DOMAIN previewData[id].changes :
             LET ch == previewData[id].changes[i]
             IN ch.type \in {"ADD", "UPDATE"} =>
                  ~validateKey(ch.key) /\ ~validateValue(WrittenValue(ch))

(* A write of a rule differs from the original label.                      *)
Differs(r, w) == w.key \notin DOMAIN r.labels \/ r.labels[w.key] # w.value

RecordOf(r, w) ==
    IF w.key \notin DOMAIN r.labels THEN AddChange(w.key, w.value)
    ELSE UpdateChange(w.key, r.labels[w.key], w.value)

(* The records the rule rows owe resource r, in the order of the rows: one *)
(* per write that differs from the original label; in CLEANUP mode one per *)
(* listed key the original map holds, at the key's first row.              *)
RecordsInRowOrder(r) ==
    IF mode = "CLEANUP"
    THEN LET held == SelectSeq(Dedup(keysToRemove),
                               LAMBDA k : k # "" /\ k \in DOMAIN r.labels)
         IN [i \in 1..Len(held) |-> DeleteChange(held[i], r.labels[held[i]])]
    ELSE LET owed == SelectSeq(RuleWrites(r), LAMBDA w : Differs(r, w))
         IN [i \in 1..Len(owed) |-> RecordOf(r, owed[i])]

(* C25: the change records of a resource appear in the order of the rule   *)
(* rows (static rows, pattern mappings, regex mappings, cleanup keys) that *)
(* produced them: the list is exactly the rows' records in row order, and  *)
(* the preview shows that list.                                            *)
C25_RecordsInRowOrder ==
    /\ \A r \in selectedResourcesList : Changes(r) = RecordsInRowOrder(r)
    /\ \A id \in DOMAIN previewData :
          previewData[id].changes = RecordsInRowOrder(resources[id])

(* The original {env: a} under rows writing env = b and then app = a: the  *)
(* list is UPDATE(env, a, b) followed by ADD(app, a).                      *)
C25_Witness ==
    /\ isLabelingStudioOpen
    /\ mode = "STATIC"
    /\ "r2" \in selectedIds
    /\ resources["r2"].labels = [k \in {"env"} |-> <<"a">>]
    /\ staticLabels = <<[key |-> "env", value |-> <<"b">>],
                        [key |-> "app", value |-> <<"a">>]>>
    /\ previewData["r2"].changes =
          <<UpdateChange("env", <<"a">>, <<"b">>), AddChange("app", <<"a">>)>>

(***************************************************************************)
(* C26.  Grouping partitions the filtered set and keeps its order.         *)
(***************************************************************************)
RowIds(items) ==
    LET rows == SelectSeq(items, LAMBDA it : it.type = "resource")
    IN [i \in DOMAIN rows |-> rows[i].data.id]

(* The filtered resources placed under the header of key, in filter order. *)
MembersOf(key) == SelectSeq(filteredResources, LAMBDA id : PlacedIn(id) = {key})

(* C26: with a grouping key set, every filtered resource belongs to        *)
(* exactly one group (one row under one header when all groups are         *)
(* expanded, and no other rows), each header's count equals the number of  *)
(* members of its group whether or not the group is collapsed, and the     *)
(* members of each expanded group appear in the same relative order as in  *)
(* the filtered sequence.                                                  *)
C26_GroupingPartitions ==
    groupByLabel # "" =>
        /\ \A id \in Range(filteredResources) :
              /\ Count(RowIds(ExpandedItems), id) = 1
              /\ Cardinality(PlacedIn(id)) = 1
        /\ Range(RowIds(ExpandedItems)) = Range(filteredResources)
        /\ \A i \in DOMAIN displayItems :
              displayItems[i].type = "header" =>
                 LET key == displayItems[i].key
                 IN /\ displayItems[i].count = Len(MembersOf(key))
                    /\ displayItems[i].count >= 1
                    /\ displayItems[i].isCollapsed <=> key \in collapsedGroups
                    /\ ~displayItems[i].isCollapsed =>
                          RowIds(Segment(displayItems, key)) = MembersOf(key)

(* An expanded group of two members that stand in the filtered sequence in *)
(* another order than that of their ids, next to a collapsed group.        *)
C26_Witness ==
    /\ groupByLabel = "env"
    /\ filteredResources = <<"r2", "r3", "r1">>
    /\ \E i, j \in DOMAIN displayItems :
          /\ displayItems[i].type = "header" /\ displayItems[j].type = "header"
          /\ ~displayItems[i].isCollapsed
          /\ RowIds(Segment(displayItems, displayItems[i].key)) = <<"r2", "r1">>
          /\ displayItems[j].isCollapsed /\ displayItems[j].count = 1

(***************************************************************************)
(* C27.  Pagination runs over the flattened header and row sequence.       *)
(***************************************************************************)
(* The number of rows on screen over all pages: without grouping one per   *)
(* filtered resource, with grouping one per group and one per resource of  *)
(* a group that is not collapsed.                                          *)
FlattenedLength ==
    IF groupByLabel = "" THEN Len(filteredResources)
    ELSE Cardinality({ GroupValue(resources[id], groupByLabel) :
                          id \in Range(filteredResources) })
         + Cardinality({ id \in Range(filteredResources) :
                            GroupValue(resources[id], groupByLabel) \notin collapsedGroups })

PageAt(p) == Slice(displayItems, (p - 1) * itemsPerPage, p * itemsPerPage)

RECURSIVE PagesUpTo(_)
PagesUpTo(p) == IF p = 0 THEN <<>> ELSE PagesUpTo(p - 1) \o PageAt(p)

(* C27: totalItems is the length of the flattened sequence and totalPages  *)
(* is ceil(totalItems / pageSize); the page on screen is the slice of at   *)
(* most pageSize consecutive items starting at (page - 1) * pageSize; the  *)
(* pages 1..totalPages one after the other are the whole sequence, every   *)
(* item exactly once; collapsing or expanding a group changes totalItems   *)
(* by exactly the count of the group's header.                             *)
C27_PaginationOverFlattened ==
    /\ totalItems = FlattenedLength
    /\ totalPages * itemsPerPage >= totalItems
    /\ (totalPages - 1) * itemsPerPage < totalItems \/ totalItems = 0
    /\ totalItems = 0 => totalPages = 0
    /\ Len(paginatedDisplayItems) <= itemsPerPage
    /\ paginatedDisplayItems = PageAt(currentPage)
    /\ \A i \in DOMAIN paginatedDisplayItems :
          paginatedDisplayItems[i] = displayItems[(currentPage - 1) * itemsPerPage + i]
    /\ \A p \in 1..totalPages :
          /\ Len(PageAt(p)) >= 1
          /\ p < totalPages => Len(PageAt(p)) = itemsPerPage
    /\ PagesUpTo(totalPages) = displayItems
    /\ \A i \in DOMAIN displayItems :
          displayItems[i].type = "header" =>
             LET toggled == DisplayItemsOf(filteredResources, groupByLabel,
                                           ToggleGroup(collapsedGroups, displayItems[i].key))
             IN Len(toggled) = IF displayItems[i].isCollapsed
                               THEN totalItems + displayItems[i].count
                               ELSE totalItems - displayItems[i].count

(* Two pages of two and one items: a collapsed group of two members takes  *)
(* one row, and the second page is on screen.                              *)
C27_Witness ==
    /\ groupByLabel = "env"
    /\ itemsPerPage = 2
    /\ totalItems = 3 /\ totalPages = 2
    /\ currentPage = 2
    /\ Len(paginatedDisplayItems) = 1
    /\ \E i \in DOMAIN displayItems :
          /\ displayItems[i].type = "header"
          /\ displayItems[i].isCollapsed /\ displayItems[i].count = 2

(***************************************************************************)
(* C28.  Manual edits against an advisory call in flight.                  *)
(***************************************************************************)
advisedParams == <<mode, delimiter, mappings, regexPattern, regexGroups>>

(* A step in which a call settles, and a step in which a panel or the mode *)
(* selector writes a parameter.                                            *)
CallSettles == pendingCalls' = pendingCalls - 1

ManualEdit == pendingCalls' = pendingCalls /\ advisedParams' # advisedParams

(* The step writes what result carries, whole, over whatever the           *)
(* parameters held, and leaves the parameters result does not carry.       *)
Overwrites(result) ==
    LET pattern == result.suggestedMode = "PATTERN" /\ result.config # NoConfig
        regex == result.suggestedMode = "REGEX" /\ result.config # NoConfig
    IN /\ aiAdvice' = result.advice
       /\ mode' = IF result.suggestedMode # "" THEN result.suggestedMode ELSE mode
       /\ IF pattern /\ result.config.delimiter # <<>>
          THEN delimiter' = result.config.delimiter ELSE delimiter' = delimiter
       /\ IF pattern /\ result.config.mappings # <<>>
          THEN mappings' = result.config.mappings ELSE mappings' = mappings
       /\ IF regex /\ result.config.regex # ""
          THEN regexPattern' = result.config.regex ELSE regexPattern' = regexPattern
       /\ IF regex /\ result.config.groups # <<>>
          THEN regexGroups' = result.config.groups ELSE regexGroups' = regexGroups

(* C28: a manual edit of the delimiter, the mappings, the regex or the     *)
(* mode while a call is in flight cancels nothing (the call stays in       *)
(* flight and the advice stays), a call that settles with a result writes  *)
(* every parameter the result carries over the value the panels hold,      *)
(* edited or not, without merging, and a manual edit is accepted in every  *)
(* state in which the studio is open, whether or not a result has arrived: *)
(* each parameter holds its last write.                                    *)
C28_LastWriteWins ==
    /\ [][ CallSettles =>
             /\ pendingCalls > 0
             /\ \/ \E result \in AdvisoryResults : Overwrites(result)
                \/ aiAdvice' = FailureAdvice /\ advisedParams' = advisedParams ]_vars
    /\ [][ ManualEdit =>
             /\ isLabelingStudioOpen
             /\ aiAdvice' = aiAdvice /\ isAnalyzing' = isAnalyzing ]_vars
    /\ [](isAnalyzing => pendingCalls > 0)

(* Two calls overlap.  The first has settled with the mappings (2, env),   *)
(* (1, app), over the mapping the panel held; the key of the first mapping *)
(* has then been edited by hand, over the result; the second call is still *)
(* in flight and will write over that edit.                                *)
C28_Witness ==
    /\ isLabelingStudioOpen
    /\ pendingCalls = 1
    /\ aiAdvice = "advice"
    /\ mode = "PATTERN"
    /\ mappings = <<[position |-> 2, key |-> ""], [position |-> 1, key |-> "app"]>>

(***************************************************************************)
(* C29 as stated: a click on the select-all checkbox clears the selection  *)
(* when the selection is exactly the set of the currently filtered         *)
(* resource ids, and in every other state makes the selection equal to     *)
(* that set.                                                               *)
(***************************************************************************)
C29_AsStated ==
    [][ toggleSelectAll =>
           selectedIds' = IF selectedIds = Range(filteredResources)
                          THEN {}
                          ELSE Range(filteredResources) ]_vars

(***************************************************************************)
(* C30 as stated: every resource handed to the studio when it is opened,   *)
(* and every resource id of an apply payload, belongs to the currently     *)
(* filtered set: a bulk apply never changes labels of a resource that the  *)
(* active filter hides.                                                    *)
(***************************************************************************)
C30_AsStated ==
    [][ /\ OpenStudio => SelectedResourceIds \subseteq Range(filteredResources)
        /\ handleApply => DOMAIN payload' \subseteq Range(filteredResources) ]_vars

====
